---------------------------- MODULE Spec2Model ----------------------------
(***************************************************************************)
(* il-pleut: a single-peer, sequential-piece BitTorrent leecher.           *)
(*                                                                         *)
(* Specification Spec models one call of Downloader::download              *)
(* (src/src/download.rs) against one peer session.  The peer is the        *)
(* environment: every message it may send is an input of the receive       *)
(* actions.  The UI thread is a second process that may set the shared     *)
(* stop flag at any moment.  SpecRun models run_download (src/src/main.rs), *)
(* SpecWire the handshake and message codec (src/src/wire.rs,              *)
(* src/src/peer_manager.rs), SpecBuffer the PieceBuffer on its own.        *)
(*                                                                         *)
(* Byte strings are modelled at the granularity of cells of Unit bytes: a  *)
(* block of data is a sequence of cell values.  Every size and offset of   *)
(* the model (piece_length, total_size, begin, length, file offsets) is a  *)
(* number of cells, that is the byte quantity of the code divided by Unit; *)
(* all byte quantities of the modelled runs are multiples of Unit.  (TLC's *)
(* integers are 32-bit signed and cannot hold a u32 byte count.)           *)
(***************************************************************************)
EXTENDS Integers, Sequences, FiniteSets, TLC

\* download.rs:13  const BLOCK_SIZE: u32 = 16384
BLOCK_SIZE == 16384

\* download.rs:184  while messages_received < 10
InitBudget == 10

\* Granularity of the modelled data: one cell stands for Unit bytes.
Unit == BLOCK_SIZE \div 2

\* BLOCK_SIZE in cells.
BlockCells == BLOCK_SIZE \div Unit

\* 2^32 bytes in cells: u32 byte arithmetic is modulo U32Cells cells.
U32Cells == ((2 ^ 30) \div Unit) * 4

\* How many messages that are not Piece messages the peer sends while the
\* blocks of one piece are awaited (the code itself does not bound them).
MaxIdleReads == 2

VARIABLES
    torrent,              \* Downloader.torrent: the parsed descriptor
    ui_sender,            \* "none" | "alive" | "dropped": Option<Sender<UIEvent>> and its receiver
    stop_signal,          \* the shared AtomicBool
    pc,                   \* position of the download call
    err,                  \* the DownloadError returned, "" when none
    output_file,          \* [len, data]: length, written cells (the others are zero)
    completed_pieces,     \* Vec<bool>
    peer_bitfield,        \* Option<Vec<u8>>: [some, bits]
    peer_choked,          \* bool
    messages_received,    \* local of handle_initial_messages
    piece_index,          \* loop variable of download
    num_blocks,           \* local of download_piece
    block_index,          \* loop variable of the request loop
    piece_buffer,         \* local of download_piece: [blocks, total_size, received_size]
    blocks_received,      \* local of download_piece
    piece_data,           \* the assembled piece handed to verify_and_write_piece
    sent,                 \* history: messages written to the peer's stream
    events,               \* history: UIEvents delivered to the channel
    msgs_read,            \* history: messages read while the blocks of the current
                          \* piece are awaited
    have_seen,            \* history: the i < piece count of the Have(i) read in the
                          \* initialization phase since the last Bitfield, kept
                          \* until the piece loop takes its first step
    choke_seen,           \* history: a Choke was read while blocks were awaited
    inserted,             \* history of SpecBuffer: the blocks handed to add_block
    stream,               \* the bytes of the peer's TcpStream that are not read yet
    peer_sent,            \* history: what the peer wrote to the stream
    received,             \* the result of the last read of the stream
    run_pc,               \* position of run_download
    peers,                \* response.peers: the number of peers of the tracker response
    peer_k,               \* loop variable of run_download: index of the current peer
    connected,            \* local of run_download
    attempts,             \* history: the outcome of the attempt with each peer
    sizes,                \* history of SpecSizes: the get_piece_size(i) computed so far
    value,                \* the BencodeValue handed to bencode_encode
    parser_data,          \* BencodeParser.data: the bytes that are parsed
    position,             \* BencodeParser.position: the cursor
    parsed,               \* the result of BencodeParser::parse on parser_data
    encoded,              \* bencode_encode of the value that was parsed
    reparsed,             \* the result of parse on `encoded`
    torrent_file,         \* the result of parse_torrent_file on parser_data
    raw_field,            \* the bytes of a field of the request: info_hash or peer_id
    url_encoded,          \* what url_encode_bytes returned for them
    query_encoded,        \* what the query of the announce URL holds for them
    generated,            \* TrackerClient.peer_id as generate_peer_id made it
    compact,              \* TrackerRequest.compact
    response              \* the result of TrackerClient::announce

\* The state of the wire layer (wire.rs, peer_manager.rs)
wire_vars == <<stream, peer_sent, received>>

\* The state of run_download (main.rs)
run_vars == <<run_pc, peers, peer_k, connected, attempts>>

\* The state of the bencode parser and of parse_torrent_file (parser.rs)
parse_vars == <<value, parser_data, position, parsed, encoded, reparsed, torrent_file>>

\* The state of an announce (tracker.rs)
\* The fields of the request that are encoded into the query (tracker.rs)
query_vars == <<raw_field, url_encoded, query_encoded, generated>>

tracker_vars == <<compact, response, query_vars>>

\* The state of the specifications of the pure functions
pure_vars == <<sizes, parse_vars, tracker_vars>>

\* What a download call leaves alone
other_vars == <<inserted, wire_vars, run_vars, pure_vars>>

\* The state of a download call that neither the wire layer, the piece buffer
\* nor run_download reads
download_rest == <<torrent, pc, output_file, completed_pieces, peer_bitfield,
                   peer_choked, messages_received, piece_index, num_blocks,
                   block_index, blocks_received, piece_data, sent, msgs_read,
                   have_seen, choke_seen>>

vars == <<torrent, ui_sender, stop_signal, pc, err, output_file, completed_pieces,
          peer_bitfield, peer_choked, messages_received, piece_index, num_blocks,
          block_index, piece_buffer, blocks_received, piece_data, sent, events,
          msgs_read, have_seen, choke_seen, other_vars>>

-----------------------------------------------------------------------------
(* Data *)

\* SHA-1 (crate sha1) as an ideal hash: the digest determines the data.
Sha1(data) == <<"sha1", data>>

\* A parsed descriptor: info.piece_length and total_size() in cells, and
\* info.pieces, the digest of each piece of the file that was published.
Descriptor(pl, total, contents) ==
    [piece_length |-> pl, total_size |-> total,
     pieces |-> [i \in 1..Len(contents) |-> Sha1(contents[i])]]

\* The descriptors a download is run with.  The parser accepts any
\* `piece length` that fits 32 bits.
Descriptors ==
    { Descriptor(2, 2, << <<1, 1>> >>),
      Descriptor(3, 5, << <<1, 1, 1>>, <<1, 1>> >>),
      Descriptor(1, 3, << <<1>>, <<0>>, <<1>> >>),
      Descriptor(U32Cells - 1, U32Cells - 1, << <<1>> >>) }

NumPieces == Len(torrent.pieces)

\* PeerMessage (wire.rs:43-66); the fields a variant lacks are 0 / <<>>.
Msg(t, i, b, l, d) == [type |-> t, index |-> i, begin |-> b, length |-> l, data |-> d]

Interested == Msg("Interested", 0, 0, 0, <<>>)
KeepAlive == Msg("KeepAlive", 0, 0, 0, <<>>)
Choke == Msg("Choke", 0, 0, 0, <<>>)
Unchoke == Msg("Unchoke", 0, 0, 0, <<>>)
NotInterested == Msg("NotInterested", 0, 0, 0, <<>>)
Have(i) == Msg("Have", i, 0, 0, <<>>)
Bitfield(bits) == Msg("Bitfield", 0, 0, 0, bits)
Request(i, b, l) == Msg("Request", i, b, l, <<>>)
Piece(i, b, d) == Msg("Piece", i, b, 0, d)

\* What the peer may send.
PeerBitfields == { <<>>, <<0>>, <<128>>, <<192>>, <<224>> }
PeerHaves == { 0, 1, 2, 8 }
PeerBegins == { 0, 1, BlockCells }
PeerData == { <<>>, <<1>>, <<0>>, <<1, 1>>, <<1, 0>> }

InitMessages ==
    { KeepAlive, Choke, Unchoke, NotInterested }
        \cup { Have(i) : i \in PeerHaves }
        \cup { Bitfield(b) : b \in PeerBitfields }

PieceMessages(p) ==
    { Piece(p, b, d) : b \in PeerBegins, d \in PeerData }
        \cup { Piece(p + 1, 0, <<1, 1>>) }

IdleMessages == { KeepAlive, Unchoke, Have(1), Have(2) }

-----------------------------------------------------------------------------
(* Pure functions of download.rs *)

None == [some |-> FALSE, bits |-> <<>>]
Some(bits) == [some |-> TRUE, bits |-> bits]

\* can_download_piece reading the bits of a byte LSB-first
can_download_piece_lsb(p) ==
    /\ peer_bitfield.some
    /\ LET byte_index == p \div 8
           bit_index == p % 8
       IN  /\ byte_index < Len(peer_bitfield.bits)
           /\ (peer_bitfield.bits[byte_index + 1] \div (2 ^ bit_index)) % 2 = 1

\* download.rs:222-232
can_download_piece(p) ==
    /\ peer_bitfield.some
    /\ LET byte_index == p \div 8
           bit_index == 7 - (p % 8)
       IN  /\ byte_index < Len(peer_bitfield.bits)
           /\ (peer_bitfield.bits[byte_index + 1] \div (2 ^ bit_index)) % 2 = 1

\* bitfield[byte_index] |= 1 << bit_index
OrBit(byte, bit_index) ==
    IF (byte \div (2 ^ bit_index)) % 2 = 1 THEN byte ELSE byte + 2 ^ bit_index

\* download.rs:234-243: the bitfield after Have(p)
update_peer_has_piece(p) ==
    IF peer_bitfield.some
    THEN LET byte_index == p \div 8
             bit_index == 7 - (p % 8)
         IN  IF byte_index < Len(peer_bitfield.bits)
             THEN Some([peer_bitfield.bits EXCEPT
                          ![byte_index + 1] = OrBit(@, bit_index)])
             ELSE peer_bitfield
    ELSE peer_bitfield

\* A last piece taken to be as long as the others
get_piece_size_uniform(p) == torrent.piece_length

\* download.rs:333-348
get_piece_size(p) ==
    IF p = NumPieces - 1
    THEN LET remaining == torrent.total_size % torrent.piece_length
         IN  IF remaining = 0 THEN torrent.piece_length ELSE remaining % U32Cells
    ELSE torrent.piece_length

\* download.rs:254: (piece_size + BLOCK_SIZE - 1) / BLOCK_SIZE in u32.  In
\* cells the byte sum piece_size + BLOCK_SIZE - 1 is piece_size + BlockCells - 1
\* (and Unit - 1 bytes, which no division by Unit or BLOCK_SIZE sees).  The
\* sum overflows u32 for piece_size > 2^32 - BLOCK_SIZE bytes: a build with
\* overflow checks panics, a build without them wraps.
NumBlocksOutcomes(piece_size) ==
    LET sum == piece_size + BlockCells - 1
    IN  IF sum >= U32Cells
        THEN { [panic |-> TRUE, n |-> 0],
               [panic |-> FALSE, n |-> (sum % U32Cells) \div BlockCells] }
        ELSE { [panic |-> FALSE, n |-> sum \div BlockCells] }

Min(a, b) == IF a <= b THEN a ELSE b

\* download.rs:256-263: the Request of block block_index of piece p
BlockRequest(p, piece_size, k) ==
    LET begin == k * BlockCells
        length == Min(BlockCells, piece_size - begin)
    IN  Request(p, begin, length)

\* download.rs:51-57
NewPieceBuffer(piece_size) ==
    [blocks |-> {}, total_size |-> piece_size, received_size |-> 0]

\* download.rs:67-69
is_complete(buf) == buf.received_size >= buf.total_size

\* An add_block that replaces the block stored at the same begin offset
add_block_replacing(buf, block) ==
    [buf EXCEPT !.received_size = (@ + Len(block.data)) % U32Cells,
                !.blocks = { b \in @ : b.begin # block.begin } \cup {block}]

\* download.rs:59-65: the buffer after add_block (blocks are keyed by begin)
add_block(buf, block) ==
    IF \A b \in buf.blocks : b.begin # block.begin
    THEN [buf EXCEPT !.received_size = (@ + Len(block.data)) % U32Cells,
                     !.blocks = @ \cup {block}]
    ELSE buf

\* download.rs:75-79: one block laid into the piece, if it fits
LayBlock(piece, block) ==
    LET start == block.begin
        end == start + Len(block.data)
    IN  IF end <= Len(piece)
        THEN [c \in 1..Len(piece) |->
                IF c > start /\ c <= end THEN block.data[c - start] ELSE piece[c]]
        ELSE piece

RECURSIVE LayAll(_, _)
LayAll(piece, order) ==
    IF order = <<>> THEN piece
    ELSE LayAll(LayBlock(piece, Head(order)), Tail(order))

\* All orders in which HashMap::values may yield the blocks.
Orders(S) ==
    { o \in [1..Cardinality(S) -> S] : \A i, j \in 1..Cardinality(S) : i # j => o[i] # o[j] }

\* download.rs:71-83: the pieces assemble may return (one per iteration order)
assemble(buf) ==
    LET zero == [c \in 1..buf.total_size |-> 0]
    IN  { LayAll(zero, o) : o \in Orders(buf.blocks) }

\* The file's cell c (cells never written are zero: set_len zero-fills).
FileCell(c) == IF c \in DOMAIN output_file.data THEN output_file.data[c] ELSE 0

\* The file after `data` is written at offset `offset` (seek, write_all)
WriteAt(offset, data) ==
    LET first == offset
        new == { first + i : i \in 1..Len(data) }
        end == offset + Len(data)
    IN  [len |-> IF end > output_file.len THEN end ELSE output_file.len,
         data |-> [c \in (DOMAIN output_file.data) \cup new |->
                     IF c \in new THEN data[c - first] ELSE output_file.data[c]]]

\* sender.send(event), result ignored: delivered only while the receiver lives
Emit(ev) == IF ui_sender = "alive" THEN Append(events, ev) ELSE events

CountAll(bits) == Len(bits)

Count(bits) == Cardinality({ i \in 1..Len(bits) : bits[i] })

PieceCompleted(i, c, t) == [type |-> "PieceCompleted", index |-> i, completed |-> c, total |-> t]
Event(t) == [type |-> t, index |-> 0, completed |-> 0, total |-> 0]

-----------------------------------------------------------------------------
(* Downloader::new and Downloader::download *)

\* No block was handed to a piece buffer
NoInserts == inserted = <<>>

\* No stream is open
NoWire ==
    /\ stream = <<>>
    /\ peer_sent = [kind |-> "nothing"]
    /\ received = [kind |-> "nothing"]

\* run_download is not running
NoRun ==
    /\ run_pc = "idle"
    /\ peers = 0
    /\ peer_k = 0
    /\ connected = FALSE
    /\ attempts = <<>>

\* No pure function was applied
NoQuery ==
    /\ raw_field = [status |-> "nothing"]
    /\ url_encoded = [status |-> "nothing"]
    /\ query_encoded = [status |-> "nothing"]
    /\ generated = [status |-> "nothing"]

NoPure ==
    /\ sizes = <<>>
    /\ value = [type |-> "nothing"]
    /\ parser_data = <<>>
    /\ position = 0
    /\ parsed = [status |-> "nothing"]
    /\ encoded = <<>>
    /\ reparsed = [status |-> "nothing"]
    /\ torrent_file = [status |-> "nothing"]
    /\ NoQuery
    /\ compact = FALSE
    /\ response = [status |-> "nothing"]

\* download.rs:98-123: the Downloader that Downloader::new returns for
\* `torrent`, and the locals and histories of a download call not yet made
NewDownloader ==
    /\ pc = "start"
    /\ err = ""
    /\ output_file = [len |-> torrent.total_size, data |-> [c \in {} |-> 0]]
    /\ completed_pieces = [i \in 1..Len(torrent.pieces) |-> FALSE]
    /\ peer_bitfield = None
    /\ peer_choked = TRUE
    /\ messages_received = 0
    /\ piece_index = 0
    /\ num_blocks = 0
    /\ block_index = 0
    /\ piece_buffer = NewPieceBuffer(0)
    /\ blocks_received = 0
    /\ piece_data = <<>>
    /\ sent = <<>>
    /\ events = <<>>
    /\ msgs_read = 0
    /\ have_seen = {}
    /\ choke_seen = FALSE

\* download.rs:98-123, with_ui_sender, with_stop_signal (main.rs:165-167)
Init ==
    /\ NoInserts /\ NoWire /\ NoRun /\ NoPure
    /\ torrent \in Descriptors
    /\ ui_sender \in {"none", "alive", "dropped"}
    /\ stop_signal = FALSE
    /\ NewDownloader

\* return Err(DownloadError { message })
FailAndRetry(message) == pc' = "piece_loop" /\ err' = message

Fail(message) == pc' = "failed" /\ err' = message

\* download_piece returns: its locals are dropped
DropPiece ==
    /\ piece_buffer' = NewPieceBuffer(0)
    /\ num_blocks' = 0
    /\ block_index' = 0
    /\ blocks_received' = 0
    /\ piece_data' = <<>>

\* download.rs:136-138 and 176-180: DownloadStarted, then Interested is sent
DownloadStart ==
    /\ pc = "start"
    /\ events' = Emit(Event("DownloadStarted"))
    /\ \/ /\ sent' = Append(sent, Interested)
          /\ pc' = "init"
          /\ err' = err
       \/ /\ Fail("Failed to send interested")
          /\ sent' = sent
    /\ UNCHANGED <<other_vars, have_seen, choke_seen, torrent, ui_sender, stop_signal, output_file, completed_pieces,
                   peer_bitfield, peer_choked, messages_received, piece_index,
                   num_blocks, block_index, piece_buffer, blocks_received,
                   piece_data, msgs_read>>

\* download.rs:189-209: the effect of one initial message on the bitfield
InitialBitfield(msg) ==
    CASE msg.type = "Bitfield" -> Some(msg.data)
      [] msg.type = "Have" -> update_peer_has_piece(msg.index)
      [] OTHER -> peer_bitfield

\* The Have(i), i < piece count, read since the last Bitfield
InitialHaves(msg) ==
    CASE msg.type = "Bitfield" -> {}
      [] msg.type = "Have" /\ msg.index < NumPieces -> have_seen \cup {msg.index}
      [] OTHER -> have_seen

\* download.rs:193-199
InitialChoked(msg) ==
    CASE msg.type = "Unchoke" -> FALSE
      [] msg.type = "Choke" -> TRUE
      [] OTHER -> peer_choked

\* download without the check of peer_choked
StillChokedUnchecked(choked) == FALSE

\* download.rs:143: if self.peer_choked
StillChoked(choked) == choked

\* download.rs:184-210 and 143-147: one iteration of the initial loop; when the
\* loop ends (Unchoke, or the budget is used up) download checks peer_choked
handle_initial_messages ==
    /\ pc = "init"
    /\ messages_received < InitBudget
    /\ \E msg \in InitMessages :
        /\ messages_received' = messages_received + 1
        /\ peer_bitfield' = InitialBitfield(msg)
        /\ peer_choked' = InitialChoked(msg)
        /\ have_seen' = InitialHaves(msg)
        /\ IF msg.type = "Unchoke" \/ messages_received' >= InitBudget
           THEN IF StillChoked(peer_choked')
                THEN Fail("Peer never unchoked us")
                ELSE pc' = "piece_loop" /\ err' = err
           ELSE pc' = "init" /\ err' = err
    /\ UNCHANGED <<other_vars, choke_seen, torrent, ui_sender, stop_signal, output_file,
                   completed_pieces, piece_index, num_blocks, block_index,
                   piece_buffer, blocks_received, piece_data, sent, events, msgs_read>>

\* download.rs:211-215: receive_message fails (I/O error or invalid frame)
InitialReceiveError ==
    /\ pc = "init"
    /\ messages_received < InitBudget
    /\ Fail("Failed to receive message")
    /\ UNCHANGED <<other_vars, have_seen, choke_seen, torrent, ui_sender, stop_signal, output_file, completed_pieces,
                   peer_bitfield, peer_choked, messages_received, piece_index,
                   num_blocks, block_index, piece_buffer, blocks_received,
                   piece_data, sent, events, msgs_read>>

\* A download that never reads the stop flag
StopNeverRead == FALSE

\* download.rs:152-153 and 274-275: stop_signal.load(Ordering::Relaxed)
StopRequested == stop_signal

LoopEndsEarly == piece_index >= NumPieces - 1

\* download.rs:149: for piece_index in 0..self.torrent.info.pieces.len()
LoopEnded == piece_index >= NumPieces

\* download.rs:150-172 and 250-254: the head of one iteration of the piece
\* loop, up to the first Request, or the end of the loop
NextPiece ==
    /\ pc = "piece_loop"
    /\ IF LoopEnded
       THEN /\ events' = Emit(Event("DownloadComplete"))
            /\ pc' = "done"
            /\ UNCHANGED <<err, num_blocks, block_index, piece_buffer,
                           blocks_received, msgs_read>>
       ELSE IF StopRequested
       THEN /\ Fail("Download stopped by user")
            /\ UNCHANGED <<events, num_blocks, block_index, piece_buffer,
                           blocks_received, msgs_read>>
       ELSE IF ~can_download_piece(piece_index)
       THEN /\ Fail("Peer doesn't have piece")
            /\ UNCHANGED <<events, num_blocks, block_index, piece_buffer,
                           blocks_received, msgs_read>>
       ELSE \E o \in NumBlocksOutcomes(get_piece_size(piece_index)) :
            /\ piece_buffer' = NewPieceBuffer(get_piece_size(piece_index))
            /\ num_blocks' = o.n
            /\ block_index' = 0
            /\ blocks_received' = 0
            /\ msgs_read' = 0
            /\ pc' = IF o.panic THEN "panicked"
                     ELSE IF o.n = 0 THEN "receive" ELSE "request"
            /\ UNCHANGED <<err, events>>
    /\ have_seen' = {}
    /\ UNCHANGED <<other_vars, choke_seen, torrent, ui_sender, stop_signal, output_file, completed_pieces,
                   peer_bitfield, peer_choked, messages_received, piece_index,
                   piece_data, sent>>

\* A request loop that awaits the reply of each Request before the next
AfterRequestAwait(k) == "receive"

\* download.rs:255 and 270: the request loop goes on while blocks remain to
\* be requested, and only then the receive loop starts
AfterRequest(k) == IF k < num_blocks THEN "request" ELSE "receive"

\* download.rs:255-268: one iteration of the request loop
SendRequest ==
    /\ pc = "request"
    /\ block_index < num_blocks
    /\ \/ /\ sent' = Append(sent, BlockRequest(piece_index, piece_buffer.total_size,
                                                block_index))
          /\ block_index' = block_index + 1
          /\ pc' = AfterRequest(block_index')
          /\ err' = err
          /\ UNCHANGED <<num_blocks, piece_buffer, blocks_received, piece_data>>
       \/ /\ Fail("Failed to send request")
          /\ DropPiece
          /\ sent' = sent
    /\ UNCHANGED <<other_vars, have_seen, choke_seen, torrent, ui_sender, stop_signal, output_file, completed_pieces,
                   peer_bitfield, peer_choked, messages_received, piece_index,
                   events, msgs_read>>

\* download.rs:272: the condition of the receive loop
Receiving ==
    /\ pc = "receive"
    /\ ~is_complete(piece_buffer)
    /\ blocks_received < num_blocks * 2

\* download.rs:274-280
ReceiveStopped ==
    /\ Receiving
    /\ StopRequested
    /\ Fail("Download stopped by user")
    /\ DropPiece
    /\ UNCHANGED <<other_vars, have_seen, choke_seen, torrent, ui_sender, stop_signal, output_file, completed_pieces,
                   peer_bitfield, peer_choked, messages_received, piece_index,
                   sent, events, msgs_read>>

\* download.rs:283-300: a Piece message is read
ReceivePiece ==
    /\ Receiving
    /\ ~StopRequested
    /\ \E msg \in PieceMessages(piece_index) :
        /\ msgs_read' = msgs_read + 1
        /\ IF msg.index = piece_index
           THEN /\ piece_buffer' = add_block(piece_buffer,
                      [index |-> msg.index, begin |-> msg.begin, data |-> msg.data])
                /\ blocks_received' =
                      IF is_complete(piece_buffer') THEN blocks_received
                      ELSE blocks_received + 1
           ELSE /\ piece_buffer' = piece_buffer
                /\ blocks_received' = blocks_received + 1
    /\ UNCHANGED <<other_vars, have_seen, choke_seen, torrent, ui_sender, stop_signal, pc, err, output_file,
                   completed_pieces, peer_bitfield, peer_choked, messages_received,
                   piece_index, num_blocks, block_index, piece_data, sent, events>>

\* A Choke that is read and ignored like a KeepAlive
ReceiveChokeIgnored ==
    /\ Receiving
    /\ ~StopRequested
    /\ msgs_read - blocks_received < MaxIdleReads
    /\ msgs_read' = msgs_read + 1
    /\ choke_seen' = TRUE
    /\ UNCHANGED <<other_vars, have_seen, torrent, ui_sender, stop_signal, pc, err, output_file,
                   completed_pieces, peer_bitfield, peer_choked, messages_received,
                   piece_index, num_blocks, block_index, piece_buffer,
                   blocks_received, piece_data, sent, events>>

\* download.rs:301-305: a Choke is read
ReceiveChoke ==
    /\ Receiving
    /\ ~StopRequested
    /\ msgs_read' = msgs_read + 1
    /\ choke_seen' = TRUE
    /\ Fail("Peer choked us during download")
    /\ DropPiece
    /\ UNCHANGED <<other_vars, have_seen, torrent, ui_sender, stop_signal, output_file, completed_pieces,
                   peer_bitfield, peer_choked, messages_received, piece_index,
                   sent, events>>

\* download.rs:306-311: KeepAlive or any other message is read and ignored
Ignored(msg) ==
    /\ msgs_read' = msgs_read + 1
    /\ UNCHANGED <<other_vars, have_seen, choke_seen, torrent, ui_sender, stop_signal, pc, err, output_file,
                   completed_pieces, peer_bitfield, peer_choked, messages_received,
                   piece_index, num_blocks, block_index, piece_buffer,
                   blocks_received, piece_data, sent, events>>

\* download.rs:306-311: a KeepAlive, and any message that is no Piece and no
\* Choke, is read and ignored
ReceiveOther ==
    /\ Receiving
    /\ ~StopRequested
    /\ msgs_read - blocks_received < MaxIdleReads
    /\ \E msg \in IdleMessages : Ignored(msg)

\* download.rs:312-316
ReceiveError ==
    /\ Receiving
    /\ ~StopRequested
    /\ Fail("Failed to receive piece data")
    /\ DropPiece
    /\ UNCHANGED <<other_vars, have_seen, choke_seen, torrent, ui_sender, stop_signal, output_file, completed_pieces,
                   peer_bitfield, peer_choked, messages_received, piece_index,
                   sent, events, msgs_read>>

\* download.rs:320-327: the loop has ended; the piece is assembled if complete
ReceiveDone ==
    /\ pc = "receive"
    /\ ~Receiving
    /\ IF ~is_complete(piece_buffer)
       THEN Fail("Failed to download complete piece") /\ DropPiece
       ELSE /\ piece_data' \in assemble(piece_buffer)
            /\ pc' = "verify"
            /\ UNCHANGED <<err, num_blocks, block_index, piece_buffer, blocks_received>>
    /\ UNCHANGED <<other_vars, have_seen, choke_seen, torrent, ui_sender, stop_signal, output_file, completed_pieces,
                   peer_bitfield, peer_choked, messages_received, piece_index,
                   sent, events, msgs_read>>

\* The hash compared with the digest of the first piece, whatever p
HashMatchesFirst(p, data) == Sha1(data) = torrent.pieces[1]

\* download.rs:356-362: the hash comparison
HashMatches(p, data) == Sha1(data) = torrent.pieces[p + 1]

\* A piece loop that does not advance
NextIndexSame(p) == p

\* download.rs:150: for piece_index in 0..pieces.len()
NextIndex(p) == p + 1

\* A piece that is written and not marked
MarkNothing(p) == completed_pieces

\* download.rs:375
MarkCompleted(p) == [completed_pieces EXCEPT ![p + 1] = TRUE]

\* download.rs:350-386
verify_and_write_piece ==
    /\ pc = "verify"
    /\ IF ~HashMatches(piece_index, piece_data)
       THEN /\ Fail("Piece failed hash verification")
            /\ UNCHANGED <<output_file, completed_pieces, events, piece_index,
                           msgs_read>>
       ELSE \/ /\ output_file' = WriteAt(piece_index * torrent.piece_length, piece_data)
               /\ completed_pieces' = MarkCompleted(piece_index)
               /\ events' = Emit(PieceCompleted(piece_index, Count(completed_pieces'),
                                                Len(completed_pieces')))
               /\ piece_index' = NextIndex(piece_index)
               /\ pc' = "piece_loop"
               /\ err' = err
               /\ msgs_read' = 0
            \/ \E k \in 0..(Len(piece_data) - 1) :
               \* seek or write_all fails after k cells were written
               /\ output_file' = WriteAt(piece_index * torrent.piece_length,
                                         SubSeq(piece_data, 1, k))
               /\ Fail("IO error")
               /\ UNCHANGED <<completed_pieces, events, piece_index, msgs_read>>
    /\ DropPiece
    /\ UNCHANGED <<other_vars, have_seen, choke_seen, torrent, ui_sender, stop_signal,
                   peer_bitfield, peer_choked, messages_received, sent>>

\* main.rs:87-88: the UI thread sets the shared flag
SetStop ==
    /\ ~stop_signal
    /\ stop_signal' = TRUE
    /\ UNCHANGED <<other_vars, have_seen, choke_seen, torrent, ui_sender, pc, err, output_file, completed_pieces,
                   peer_bitfield, peer_choked, messages_received, piece_index,
                   num_blocks, block_index, piece_buffer, blocks_received,
                   piece_data, sent, events, msgs_read>>

Next ==
    \/ DownloadStart
    \/ handle_initial_messages
    \/ InitialReceiveError
    \/ NextPiece
    \/ SendRequest
    \/ ReceiveStopped
    \/ ReceivePiece
    \/ ReceiveChoke
    \/ ReceiveOther
    \/ ReceiveError
    \/ ReceiveDone
    \/ verify_and_write_piece
    \/ SetStop

Spec == Init /\ [][Next]_vars

-----------------------------------------------------------------------------
(* run_download (main.rs): the peers of the tracker response are tried in   *)
(* turn.  Specification SpecRun models one call; a download call is one     *)
(* step whose outcome is any result download may return (a one-piece        *)
(* descriptor: PieceCompleted is emitted exactly when the call succeeds).   *)

\* The length of response.peers is at most MaxPeers.
MaxPeers == 2

\* UIEvent::Error(text) (ui.rs:29-40)
ErrorEvent(text) ==
    [type |-> "Error", index |-> 0, completed |-> 0, total |-> 0, text |-> text]

\* A UIEvent that carries the address of peer k
PeerEvent(t, k) == [type |-> t, index |-> k, completed |-> 0, total |-> 0]

\* Several sends in a row
EmitAll(evs) == IF ui_sender = "alive" THEN events \o evs ELSE events

\* The messages of the DownloadError values download returns
DownloadErrors ==
    { "Failed to send interested", "Peer never unchoked us",
      "Failed to receive message", "Download stopped by user",
      "Peer doesn't have piece", "Failed to send request",
      "Peer choked us during download", "Failed to receive piece data",
      "Failed to download complete piece", "Piece failed hash verification",
      "IO error" }

\* The attempt with the current peer ends with `result`
EndAttempt(result) ==
    [attempts EXCEPT ![Len(attempts)] = [peer |-> peer_k, result |-> result]]

\* main.rs:102-108: run_download is called; the sender it is given is never
\* None, the receiver may be gone
InitRun ==
    /\ NoInserts /\ NoWire /\ NoPure
    /\ torrent = Descriptor(2, 2, << <<1, 1>> >>)
    /\ ui_sender \in {"alive", "dropped"}
    /\ stop_signal = FALSE
    /\ NewDownloader
    /\ run_pc = "parse"
    /\ peers = 0
    /\ peer_k = 0
    /\ connected = FALSE
    /\ attempts = <<>>

\* main.rs:110-119
ParseTorrent ==
    /\ run_pc = "parse"
    /\ \/ /\ events' = Emit(Event("TorrentParsed"))
          /\ run_pc' = "announce"
       \/ /\ events' = Emit(ErrorEvent(<<"Failed to parse torrent">>))
          /\ run_pc' = "returned"
    /\ UNCHANGED <<pure_vars, download_rest, ui_sender, stop_signal, err, piece_buffer,
                   inserted, wire_vars, peers, peer_k, connected, attempts>>

\* main.rs:125-134
Announce ==
    /\ run_pc = "announce"
    /\ \/ \E n \in 0..MaxPeers :
            /\ peers' = n
            /\ events' = Emit(Event("TrackerResponse"))
            /\ run_pc' = "loop"
       \/ /\ events' = Emit(ErrorEvent(<<"Tracker error">>))
          /\ run_pc' = "returned"
          /\ peers' = peers
    /\ UNCHANGED <<pure_vars, download_rest, ui_sender, stop_signal, err, piece_buffer,
                   inserted, wire_vars, peer_k, connected, attempts>>

\* main.rs:138-145: the head of one iteration of the peer loop
PeerLoopHead ==
    /\ run_pc = "loop"
    /\ IF peer_k >= peers
       THEN /\ run_pc' = "after_loop"
            /\ UNCHANGED <<events, attempts>>
       ELSE IF stop_signal
       THEN /\ run_pc' = "returned"
            /\ UNCHANGED <<events, attempts>>
       ELSE /\ events' = Emit(PeerEvent("ConnectingToPeer", peer_k))
            /\ attempts' = Append(attempts, [peer |-> peer_k, result |-> "pending"])
            /\ run_pc' = "connecting"
    /\ UNCHANGED <<pure_vars, download_rest, ui_sender, stop_signal, err, piece_buffer,
                   inserted, wire_vars, peers, peer_k, connected>>

\* main.rs:147-166 and 178-189: PeerClient::connect, then Downloader::new
Connect ==
    /\ run_pc = "connecting"
    /\ \/ /\ events' = Emit(PeerEvent("PeerConnectionFailed", peer_k))
          /\ attempts' = EndAttempt("connection failed")
          /\ peer_k' = peer_k + 1
          /\ run_pc' = "loop"
       \/ /\ events' = EmitAll(<< PeerEvent("PeerConnected", peer_k),
                                  ErrorEvent(<<"Failed to create downloader">>) >>)
          /\ attempts' = EndAttempt("downloader failed")
          /\ peer_k' = peer_k
          /\ run_pc' = "after_attempt"
       \/ /\ events' = Emit(PeerEvent("PeerConnected", peer_k))
          /\ attempts' = attempts
          /\ peer_k' = peer_k
          /\ run_pc' = "downloading"
    /\ UNCHANGED <<pure_vars, download_rest, ui_sender, stop_signal, err, piece_buffer,
                   inserted, wire_vars, peers, connected>>

\* A peer loop that goes on after a download that succeeded
NoBreak == "after_attempt"

\* main.rs:168-171: connected = true; break
AfterDownloadOk == "after_loop"

\* main.rs:167-176 and download.rs:135-173: download runs and returns.  It
\* returns the error of the stop flag only after a load of the flag returned
\* true, and the flag is never reset.
DownloadReturns ==
    /\ run_pc = "downloading"
    /\ \/ /\ events' = EmitAll(<< Event("DownloadStarted"), PieceCompleted(0, 1, 1),
                                  Event("DownloadComplete") >>)
          /\ attempts' = EndAttempt("ok")
          /\ connected' = TRUE
          /\ run_pc' = AfterDownloadOk
       \/ \E e \in DownloadErrors :
          /\ e = "Download stopped by user" => stop_signal
          /\ events' = EmitAll(<< Event("DownloadStarted"),
                                  ErrorEvent(<<"Download failed", e>>) >>)
          /\ attempts' = EndAttempt(e)
          /\ connected' = connected
          /\ run_pc' = "after_attempt"
    /\ UNCHANGED <<pure_vars, download_rest, ui_sender, stop_signal, err, piece_buffer,
                   inserted, wire_vars, peers, peer_k>>

\* main.rs:192-197: the check after an attempt that did not `continue`
AfterAttempt ==
    /\ run_pc = "after_attempt"
    /\ IF stop_signal
       THEN /\ events' = Emit(Event("DownloadStopped"))
            /\ run_pc' = "returned"
            /\ peer_k' = peer_k
       ELSE /\ events' = events
            /\ run_pc' = "loop"
            /\ peer_k' = peer_k + 1
    /\ UNCHANGED <<pure_vars, download_rest, ui_sender, stop_signal, err, piece_buffer,
                   inserted, wire_vars, peers, connected, attempts>>

\* main.rs:199-207
AfterLoop ==
    /\ run_pc = "after_loop"
    /\ events' =
          IF connected THEN events
          ELSE IF stop_signal THEN Emit(Event("DownloadStopped"))
          ELSE Emit(ErrorEvent(<<"Failed to connect to any peers or download failed">>))
    /\ run_pc' = "returned"
    /\ UNCHANGED <<pure_vars, download_rest, ui_sender, stop_signal, err, piece_buffer,
                   inserted, wire_vars, peers, peer_k, connected, attempts>>

NextRun ==
    \/ ParseTorrent
    \/ Announce
    \/ PeerLoopHead
    \/ Connect
    \/ DownloadReturns
    \/ AfterAttempt
    \/ AfterLoop
    \/ SetStop

SpecRun == InitRun /\ [][NextRun]_vars

-----------------------------------------------------------------------------
(* The wire layer (wire.rs, peer_manager.rs).  Specification SpecWire: the   *)
(* peer writes a handshake, a message or any frame to the stream, and the   *)
(* client reads it.  This layer is modelled byte by byte: a stream is a     *)
(* sequence of bytes, and the fields of a message are the numbers the code  *)
(* holds.                                                                   *)

\* wire.rs:20  buf[0] = 19
PstrLen == 19

\* wire.rs:18  [u8; 68]
HandshakeLen == 68

\* wire.rs:5  "BitTorrent protocol" in ASCII
BT_PROTOCOL ==
    <<66, 105, 116, 84, 111, 114, 114, 101, 110, 116, 32,
      112, 114, 111, 116, 111, 99, 111, 108>>

\* The longest Bitfield or Piece block, and the longest payload of a frame
\* that is not the encoding of a message, that the peer sends.
MaxBlockLen == 3
MaxPayload == 13

Bytes(n, v) == [i \in 1..n |-> v]

\* u32::to_be_bytes, for values below 2^31
to_be_bytes(n) ==
    <<n \div (2 ^ 24), (n \div (2 ^ 16)) % 256, (n \div (2 ^ 8)) % 256, n % 256>>

\* u16::to_be_bytes
to_be_bytes16(n) == <<n \div 256, n % 256>>

\* The four bytes read least significant first
from_le_bytes(b) == b[1] + b[2] * (2 ^ 8) + b[3] * (2 ^ 16) + b[4] * (2 ^ 24)

\* u32::from_be_bytes
from_be_bytes(b) == b[1] * (2 ^ 24) + b[2] * (2 ^ 16) + b[3] * (2 ^ 8) + b[4]

\* u16::from_be_bytes
from_le_bytes16(b) == b[1] + b[2] * 256

from_be_bytes16(b) == b[1] * 256 + b[2]

Cancel(i, b, l) == Msg("Cancel", i, b, l, <<>>)
Port(port) == Msg("Port", port, 0, 0, <<>>)

\* wire.rs:8-16
Handshake(info_hash, peer_id) == [info_hash |-> info_hash, peer_id |-> peer_id]

\* wire.rs:18-26
Handshake_serialize(h) ==
    <<PstrLen>> \o BT_PROTOCOL \o Bytes(8, 0) \o h.info_hash \o h.peer_id

\* The protocol string of a handshake left unchecked
ProtocolUnchecked(data) == TRUE

\* wire.rs:32: &data[1..20] == BT_PROTOCOL.as_bytes()
ProtocolMatches(data) == SubSeq(data, 2, 20) = BT_PROTOCOL

\* wire.rs:28-40: [some, info_hash, peer_id]
Handshake_deserialize(data) ==
    IF Len(data) # HandshakeLen \/ data[1] # PstrLen
    THEN [some |-> FALSE]
    ELSE IF ~ProtocolMatches(data)
    THEN [some |-> FALSE]
    ELSE [some |-> TRUE,
          info_hash |-> SubSeq(data, 29, 48),
          peer_id |-> SubSeq(data, 49, 68)]

\* wire.rs:71-133: PeerMessage::serialize.  (`as u32` of a length of 2^32
\* - 1 bytes or more is outside the lengths modelled.)
PeerMessage_serialize(m) ==
    CASE m.type = "KeepAlive" -> <<0, 0, 0, 0>>
      [] m.type = "Choke" -> <<0, 0, 0, 1, 0>>
      [] m.type = "Unchoke" -> <<0, 0, 0, 1, 1>>
      [] m.type = "Interested" -> <<0, 0, 0, 1, 2>>
      [] m.type = "NotInterested" -> <<0, 0, 0, 1, 3>>
      [] m.type = "Have" -> <<0, 0, 0, 5, 4>> \o to_be_bytes(m.index)
      [] m.type = "Bitfield" -> to_be_bytes(1 + Len(m.data)) \o <<5>> \o m.data
      [] m.type = "Request" ->
           <<0, 0, 0, 13, 6>> \o to_be_bytes(m.index) \o to_be_bytes(m.begin)
               \o to_be_bytes(m.length)
      [] m.type = "Piece" ->
           to_be_bytes(9 + Len(m.data)) \o <<7>> \o to_be_bytes(m.index)
               \o to_be_bytes(m.begin) \o m.data
      [] m.type = "Cancel" ->
           <<0, 0, 0, 13, 8>> \o to_be_bytes(m.index) \o to_be_bytes(m.begin)
               \o to_be_bytes(m.length)
      [] m.type = "Port" -> <<0, 0, 0, 3, 9>> \o to_be_bytes16(m.index)

\* io::Result<PeerMessage>
Ok(m) == [kind |-> "message", ok |-> TRUE, msg |-> m]
Err(text) == [kind |-> "message", ok |-> FALSE, error |-> text]

\* A frame of unknown id read as a KeepAlive
UnknownIdIgnored(id) == Ok(KeepAlive)

\* wire.rs:237-240
UnknownId(id) == Err("Unknown message id")

Field(msg_buf, k) == from_be_bytes(SubSeq(msg_buf, 4 * k - 2, 4 * k + 1))

\* wire.rs:162-241: the message of the `len` bytes that follow the prefix
DecodeBody(msg_buf) ==
    LET id == msg_buf[1]
        n == Len(msg_buf)
    IN  CASE id = 0 -> Ok(Choke)
          [] id = 1 -> Ok(Unchoke)
          [] id = 2 -> Ok(Interested)
          [] id = 3 -> Ok(NotInterested)
          [] id = 4 -> IF n < 5 THEN Err("Invalid have message")
                       ELSE Ok(Have(Field(msg_buf, 1)))
          [] id = 5 -> Ok(Bitfield(SubSeq(msg_buf, 2, n)))
          [] id = 6 -> IF n < 13 THEN Err("Invalid request message")
                       ELSE Ok(Request(Field(msg_buf, 1), Field(msg_buf, 2),
                                       Field(msg_buf, 3)))
          [] id = 7 -> IF n < 9 THEN Err("Invalid piece message")
                       ELSE Ok(Piece(Field(msg_buf, 1), Field(msg_buf, 2),
                                     SubSeq(msg_buf, 10, n)))
          [] id = 8 -> IF n < 13 THEN Err("Invalid cancel message")
                       ELSE Ok(Cancel(Field(msg_buf, 1), Field(msg_buf, 2),
                                      Field(msg_buf, 3)))
          [] id = 9 -> IF n < 3 THEN Err("Invalid port message")
                       ELSE Ok(Port(from_be_bytes16(SubSeq(msg_buf, 2, 3))))
          [] OTHER -> UnknownId(id)

\* wire.rs:153-161: receive_message on a stream that holds `s` and is then
\* closed: [result, rest], the result and the bytes left unread
receive_message(s) ==
    IF Len(s) < 4
    THEN [result |-> Err("failed to fill whole buffer"), rest |-> <<>>]
    ELSE LET len == from_be_bytes(SubSeq(s, 1, 4))
         IN  IF len = 0
             THEN [result |-> Ok(KeepAlive), rest |-> SubSeq(s, 5, Len(s))]
             ELSE IF Len(s) - 4 < len
             THEN [result |-> Err("failed to fill whole buffer"), rest |-> <<>>]
             ELSE [result |-> DecodeBody(SubSeq(s, 5, 4 + len)),
                   rest |-> SubSeq(s, 5 + len, Len(s))]

\* wire.rs:141-146: receive_handshake on a stream that holds `s`
receive_handshake(s) ==
    IF Len(s) < HandshakeLen
    THEN [some |-> FALSE]
    ELSE Handshake_deserialize(SubSeq(s, 1, HandshakeLen))

\* The info_hash and the peer_id that run_download passes to connect
ClientInfoHash == Bytes(20, 170)
ClientPeerId == [i \in 1..20 |-> 48 + i]

\* What the peer may send
PeerHandshakes ==
    { Handshake(ih, id) : ih \in { ClientInfoHash, Bytes(20, 0), [i \in 1..20 |-> i] },
                          id \in { Bytes(20, 45), [i \in 1..20 |-> 255 - i] } }

ByteAlts == { 0, 19, 20, 66, 255 }

U32Values == { 0, 1, 258, 16384, 16909060, 2147483647 }

Blocks == { [i \in 1..n |-> (85 * i) % 256] : n \in 0..MaxBlockLen }

WireMessages ==
    { KeepAlive, Choke, Unchoke, Interested, NotInterested }
        \cup { Have(i) : i \in U32Values }
        \cup { Bitfield(bits) : bits \in Blocks }
        \cup { Request(i, b, l) : i \in {0, 258}, b \in U32Values, l \in U32Values }
        \cup { Piece(i, b, d) : i \in U32Values, b \in {0, 16384}, d \in Blocks }
        \cup { Cancel(i, b, l) : i \in U32Values, b \in U32Values, l \in {16384} }
        \cup { Port(port) : port \in {0, 6881, 65535} }

FrameIds == (0..11) \cup {255}

\* What may follow in the stream: nothing, or a KeepAlive
Tails == { <<>>, <<0, 0, 0, 0>> }

\* The bytes `data` with byte `pos` replaced by `val` (pos = 0: unchanged)
Corrupt(data, pos, val) ==
    IF pos = 0 THEN data ELSE [data EXCEPT ![pos] = val]

\* Nothing is in the stream yet
InitWire ==
    /\ NoInserts /\ NoRun /\ NoWire /\ NoPure
    /\ torrent = Descriptor(2, 2, << <<1, 1>> >>)
    /\ ui_sender = "none"
    /\ stop_signal = FALSE
    /\ NewDownloader

\* The peer writes a handshake, of which one of the bytes before the
\* info_hash may be wrong
PeerSendsHandshake ==
    /\ peer_sent.kind = "nothing"
    /\ \E h \in PeerHandshakes, pos \in 0..28, val \in ByteAlts, tail \in Tails :
        /\ pos = 0 => val = 0
        /\ pos > 0 => val # Handshake_serialize(h)[pos]
        /\ LET bytes == Corrupt(Handshake_serialize(h), pos, val)
           IN  /\ stream' = bytes \o tail
               /\ peer_sent' = [kind |-> "handshake", handshake |-> h, pos |-> pos,
                                 bytes |-> bytes, tail |-> tail]
    /\ UNCHANGED <<pure_vars, download_rest, ui_sender, stop_signal, err, events, piece_buffer,
                   inserted, run_vars, received>>

\* The peer writes the encoding of a message
PeerSendsMessage ==
    /\ peer_sent.kind = "nothing"
    /\ \E m \in WireMessages, tail \in Tails :
        /\ stream' = PeerMessage_serialize(m) \o tail
        /\ peer_sent' = [kind |-> "message", msg |-> m, tail |-> tail]
    /\ UNCHANGED <<pure_vars, download_rest, ui_sender, stop_signal, err, events, piece_buffer,
                   inserted, run_vars, received>>

\* The peer writes a frame: a length prefix, an id and any payload
PeerSendsFrame ==
    /\ peer_sent.kind = "nothing"
    /\ \E id \in FrameIds, n \in 0..MaxPayload, tail \in Tails :
        /\ stream' = to_be_bytes(1 + n) \o <<id>> \o [i \in 1..n |-> i] \o tail
        /\ peer_sent' = [kind |-> "frame", id |-> id, len |-> 1 + n, tail |-> tail]
    /\ UNCHANGED <<pure_vars, download_rest, ui_sender, stop_signal, err, events, piece_buffer,
                   inserted, run_vars, received>>

\* The peer writes a handshake or a message and closes the stream before
\* its last byte
PeerSendsTruncated ==
    /\ peer_sent.kind = "nothing"
    /\ \/ \E h \in PeerHandshakes :
            /\ stream' = SubSeq(Handshake_serialize(h), 1, HandshakeLen - 1)
            /\ peer_sent' = [kind |-> "truncated handshake", bytes |-> stream']
       \/ \E m \in WireMessages :
            /\ stream' = SubSeq(PeerMessage_serialize(m), 1,
                                Len(PeerMessage_serialize(m)) - 1)
            /\ peer_sent' = [kind |-> "truncated message", bytes |-> stream']
    /\ UNCHANGED <<pure_vars, download_rest, ui_sender, stop_signal, err, events, piece_buffer,
                   inserted, run_vars, received>>

\* Handshake::deserialize applied to the handshake bytes of the peer
Deserialize ==
    /\ peer_sent.kind \in {"handshake", "truncated handshake"}
    /\ received.kind = "nothing"
    /\ LET h == Handshake_deserialize(peer_sent.bytes)
       IN  received' =
             IF h.some
             THEN [kind |-> "handshake", some |-> TRUE,
                   info_hash |-> h.info_hash, peer_id |-> h.peer_id]
             ELSE [kind |-> "handshake", some |-> FALSE]
    /\ UNCHANGED <<pure_vars, download_rest, ui_sender, stop_signal, err, events, piece_buffer,
                   inserted, run_vars, stream, peer_sent>>

\* peer_manager.rs:17-28: PeerClient::connect with ClientInfoHash and
\* ClientPeerId: the TCP connection or the send of the handshake fails, or
\* the handshake of the peer is read
PeerClient_connect ==
    /\ peer_sent.kind \in {"handshake", "truncated handshake"}
    /\ received.kind = "nothing"
    /\ \/ /\ received' = [kind |-> "session", ok |-> FALSE]
          /\ stream' = stream
       \/ LET peer_handshake == receive_handshake(stream)
          IN  /\ received' =
                    IF peer_handshake.some
                    THEN [kind |-> "session", ok |-> TRUE,
                          peer_id |-> peer_handshake.peer_id,
                          info_hash |-> peer_handshake.info_hash]
                    ELSE [kind |-> "session", ok |-> FALSE]
              /\ stream' = SubSeq(stream, HandshakeLen + 1, Len(stream))
    /\ UNCHANGED <<pure_vars, download_rest, ui_sender, stop_signal, err, events, piece_buffer,
                   inserted, run_vars, peer_sent>>

\* peer_manager.rs:34-36: PeerClient::receive_message
ReceiveMessage ==
    /\ peer_sent.kind \in {"message", "frame", "truncated message"}
    /\ received.kind = "nothing"
    /\ received' = receive_message(stream).result
    /\ stream' = receive_message(stream).rest
    /\ UNCHANGED <<pure_vars, download_rest, ui_sender, stop_signal, err, events, piece_buffer,
                   inserted, run_vars, peer_sent>>

NextWire ==
    \/ PeerSendsHandshake
    \/ PeerSendsMessage
    \/ PeerSendsFrame
    \/ PeerSendsTruncated
    \/ Deserialize
    \/ PeerClient_connect
    \/ ReceiveMessage

SpecWire == InitWire /\ [][NextWire]_vars

-----------------------------------------------------------------------------
(* PieceBuffer (download.rs:43-84) on its own.  Specification SpecBuffer: a  *)
(* buffer is created and any blocks are added to it, whether or not it is   *)
(* complete.                                                                *)

\* At most MaxInserts blocks are added to a buffer.
MaxInserts == 3

\* The blocks added: Block { index, begin, data }
BufferBlocks ==
    { [index |-> 0, begin |-> b, data |-> d] : b \in PeerBegins, d \in PeerData }

InitBuffer ==
    /\ NoInserts /\ NoRun /\ NoWire /\ NoPure
    /\ torrent = Descriptor(3, 5, << <<1, 1, 1>>, <<1, 1>> >>)
    /\ ui_sender = "none"
    /\ stop_signal = FALSE
    /\ NewDownloader

\* download.rs:251: PieceBuffer::new(piece_size) for a piece of the descriptor
PieceBufferNew ==
    /\ piece_buffer.total_size = 0
    /\ \E p \in 0..(NumPieces - 1) :
        piece_buffer' = NewPieceBuffer(get_piece_size(p))
    /\ UNCHANGED <<pure_vars, download_rest, ui_sender, stop_signal, err, events, inserted,
                   wire_vars, run_vars>>

\* download.rs:295: piece_buffer.add_block(block)
AddBlock ==
    /\ piece_buffer.total_size > 0
    /\ Len(inserted) < MaxInserts
    /\ \E block \in BufferBlocks :
        /\ piece_buffer' = add_block(piece_buffer, block)
        /\ inserted' = Append(inserted, block)
    /\ UNCHANGED <<pure_vars, download_rest, ui_sender, stop_signal, err, events,
                   wire_vars, run_vars>>

NextBuffer ==
    \/ PieceBufferNew
    \/ AddBlock

SpecBuffer == InitBuffer /\ [][NextBuffer]_vars

-----------------------------------------------------------------------------
(* get_piece_size (download.rs:333-348) on its own.  Specification          *)
(* SpecSizes: the sizes of the pieces of a consistent descriptor are        *)
(* computed in turn.                                                        *)

\* The descriptors have a piece length of at most MaxPieceLength, or the
\* largest one of 32 bits, and at most MaxPieceCount pieces.
MaxPieceLength == 4
MaxPieceCount == 3

PieceLengths == (1..MaxPieceLength) \cup {U32Cells - 1}

\* The sizes the last piece may have
LastSizes(pl) == IF pl <= MaxPieceLength THEN 1..pl ELSE {1, pl - 1, pl}

\* The descriptors with ceil(total_size / piece_length) = pieces.len()
ConsistentDescriptors ==
    UNION { { [piece_length |-> pl, total_size |-> (n - 1) * pl + r,
               pieces |-> [i \in 1..n |-> Sha1(<<i>>)]] :
                  n \in 1..MaxPieceCount, r \in LastSizes(pl) } :
            pl \in PieceLengths }

InitSizes ==
    /\ NoInserts /\ NoRun /\ NoWire /\ NoPure
    /\ \E d \in ConsistentDescriptors :
          /\ d.total_size \in ((Len(d.pieces) - 1) * d.piece_length + 1)
                                 ..(Len(d.pieces) * d.piece_length)
          /\ torrent = d
    /\ ui_sender = "none"
    /\ stop_signal = FALSE
    /\ NewDownloader

\* download.rs:250: get_piece_size(piece_index), for each piece in turn
PieceSize ==
    /\ piece_index < NumPieces
    /\ sizes' = Append(sizes, get_piece_size(piece_index))
    /\ piece_index' = piece_index + 1
    /\ UNCHANGED <<torrent, pc, output_file, completed_pieces, peer_bitfield,
                   peer_choked, messages_received, num_blocks, block_index,
                   blocks_received, piece_data, sent, msgs_read, have_seen,
                   choke_seen, ui_sender, stop_signal, err, events, piece_buffer,
                   inserted, wire_vars, run_vars, parse_vars, tracker_vars>>

NextSizes == PieceSize

SpecSizes == InitSizes /\ [][NextSizes]_vars

-----------------------------------------------------------------------------
(* Bencode (parser.rs).  Bytes are numbers below 256 and text is the        *)
(* sequence of its ASCII codes.  A decimal number is kept as the sequence   *)
(* of its digits, most significant first and without leading zeros, so     *)
(* that the values of i64 and usize are exact.                              *)

\* b'i', b'l', b'd', b'e', b':', b'-', b'+', b'0', b'9'
Ch == [i |-> 105, l |-> 108, d |-> 100, e |-> 101, colon |-> 58,
       minus |-> 45, plus |-> 43, zero |-> 48, nine |-> 57]

\* i64::MAX, the magnitude of i64::MIN and usize::MAX (64-bit target)
I64Max == <<57, 50, 50, 51, 51, 55, 50, 48, 51, 54, 56, 53, 52, 55, 55, 53, 56, 48, 55>>
I64MinAbs == <<57, 50, 50, 51, 51, 55, 50, 48, 51, 54, 56, 53, 52, 55, 55, 53, 56, 48, 56>>
UsizeMax == <<49, 56, 52, 52, 54, 55, 52, 52, 48, 55, 51, 55, 48, 57, 53, 53, 49, 54, 49, 53>>

IsDigits(text) == \A k \in 1..Len(text) : text[k] \in Ch.zero..Ch.nine

\* The digits without their leading zeros ("0" for zero)
RECURSIVE StripZeros(_)
StripZeros(digits) ==
    IF Len(digits) > 1 /\ digits[1] = Ch.zero THEN StripZeros(Tail(digits))
    ELSE digits

\* a < b as sequences of bytes (the order of Vec<u8>)
RECURSIVE BytesLess(_, _)
BytesLess(a, b) ==
    IF b = <<>> THEN FALSE
    ELSE IF a = <<>> THEN TRUE
    ELSE IF a[1] # b[1] THEN a[1] < b[1]
    ELSE BytesLess(Tail(a), Tail(b))

\* a > b for two numbers given by their digits
DecGreater(a, b) ==
    \/ Len(a) > Len(b)
    \/ Len(a) = Len(b) /\ BytesLess(b, a)

\* usize::to_string
RECURSIVE to_string(_)
to_string(n) ==
    IF n < 10 THEN <<Ch.zero + n>>
    ELSE to_string(n \div 10) \o <<Ch.zero + (n % 10)>>

\* The number of at most nine digits
RECURSIVE DecToNat(_)
DecToNat(digits) ==
    IF digits = <<>> THEN 0
    ELSE DecToNat(SubSeq(digits, 1, Len(digits) - 1)) * 10
            + (digits[Len(digits)] - Ch.zero)

\* The digits of the sum of a number given by its digits and a small one
RECURSIVE DecAdd(_, _)
DecAdd(digits, k) ==
    IF digits = <<>> THEN (IF k = 0 THEN <<>> ELSE to_string(k))
    ELSE LET sum == (digits[Len(digits)] - Ch.zero) + k
         IN  DecAdd(SubSeq(digits, 1, Len(digits) - 1), sum \div 10)
                \o <<Ch.zero + (sum % 10)>>

\* std::str::from_utf8 succeeds; the inputs hold no multi-byte sequences, so
\* a byte of 128 or more is an invalid sequence
from_utf8(text) == \A k \in 1..Len(text) : text[k] < 128

\* str::parse::<i64>: an optional sign, then at least one digit, and a value
\* within i64.  "-0" is the number 0.
parse_i64(text) ==
    LET signed == text # <<>> /\ text[1] \in {Ch.minus, Ch.plus}
        digits == IF signed THEN Tail(text) ELSE text
        neg == signed /\ text[1] = Ch.minus
        mag == StripZeros(digits)
    IN  IF digits = <<>> \/ ~IsDigits(digits)
           \/ DecGreater(mag, IF neg THEN I64MinAbs ELSE I64Max)
        THEN [ok |-> FALSE]
        ELSE [ok |-> TRUE, neg |-> neg /\ mag # <<Ch.zero>>, digits |-> mag]

\* str::parse::<usize>: an optional '+', then at least one digit, and a value
\* within usize
parse_usize(text) ==
    LET signed == text # <<>> /\ text[1] = Ch.plus
        digits == IF signed THEN Tail(text) ELSE text
        mag == StripZeros(digits)
    IN  IF digits = <<>> \/ ~IsDigits(digits) \/ DecGreater(mag, UsizeMax)
        THEN [ok |-> FALSE]
        ELSE [ok |-> TRUE, digits |-> mag]

\* BencodeValue (parser.rs:7-12).  A Dictionary is the function of its
\* HashMap, from the keys to their values.
BString(bytes) == [type |-> "String", bytes |-> bytes]
BInteger(neg, digits) == [type |-> "Integer", neg |-> neg, digits |-> digits]
BList(items) == [type |-> "List", items |-> items]
BDict(entries) == [type |-> "Dictionary", entries |-> entries]

\* A small integer as a BencodeValue
BInt(n) == IF n < 0 THEN BInteger(TRUE, to_string(0 - n))
           ELSE BInteger(FALSE, to_string(n))

\* HashMap::insert: the value of a key that is present is replaced
insert(dict, key, val) ==
    [x \in (DOMAIN dict) \cup {key} |-> IF x = key THEN val ELSE dict[x]]

\* An integer written without its sign
i64_to_string_unsigned(v) == v.digits

\* i64::to_string
i64_to_string(v) == IF v.neg THEN <<Ch.minus>> \o v.digits ELSE v.digits

\* The results of parse: a value and the cursor after it, an error and the
\* cursor where it was found, or a panic
ParseOk(v, pos) == [status |-> "ok", value |-> v, pos |-> pos]
ParseErr(text, pos) == [status |-> "err", error |-> text, pos |-> pos]
ParsePanic == [status |-> "panic"]

\* while self.position < self.data.len() && self.data[self.position] != c
\*     { self.position += 1 }
ScanTo(data, pos, c) ==
    LET found == { k \in pos..(Len(data) - 1) : data[k + 1] = c }
    IN  IF found # {} THEN CHOOSE k \in found : \A j \in found : k <= j
        ELSE IF pos > Len(data) THEN pos ELSE Len(data)

\* parser.rs:55-80
parse_integer(data, pos) ==
    LET start == pos + 1
        stop == ScanTo(data, start, Ch.e)
        int_str == SubSeq(data, start + 1, stop)
    IN  IF stop >= Len(data) THEN ParseErr("Unterminated integer", stop)
        ELSE IF ~from_utf8(int_str) THEN ParseErr("Invalid UTF-8 in integer", stop)
        ELSE IF ~parse_i64(int_str).ok THEN ParseErr("Invalid integer", stop)
        ELSE ParseOk(BInteger(parse_i64(int_str).neg, parse_i64(int_str).digits),
                     stop + 1)

\* parser.rs:106 and 112: self.position + length in usize, compared with
\* data.len().  A sum beyond usize::MAX panics in a build with overflow
\* checks; in a build without them it wraps to less than the position, passes
\* the comparison and the slice of line 112 panics.
length_check(length, pos, n) ==
    IF DecGreater(DecAdd(length, pos), UsizeMax) THEN "panic"
    ELSE IF DecGreater(DecAdd(length, pos), to_string(n)) THEN "long"
    ELSE "short"

\* parser.rs:82-116
parse_string(data, pos) ==
    LET stop == ScanTo(data, pos, Ch.colon)
        length_str == SubSeq(data, pos + 1, stop)
        length == parse_usize(length_str)
        after == stop + 1
    IN  IF stop >= Len(data) THEN ParseErr("Unterminated string length", stop)
        ELSE IF ~from_utf8(length_str)
        THEN ParseErr("Invalid UTF-8 in string length", stop)
        ELSE IF ~length.ok THEN ParseErr("Invalid string length", stop)
        ELSE LET check == length_check(length.digits, after, Len(data))
             IN  IF check = "panic" THEN ParsePanic
                 ELSE IF check = "long"
                 THEN ParseErr("String longer than remaining data", after)
                 ELSE ParseOk(BString(SubSeq(data, after + 1,
                                             after + DecToNat(length.digits))),
                              after + DecToNat(length.digits))

RECURSIVE parse(_, _)
RECURSIVE parse_list_loop(_, _, _)
RECURSIVE parse_dictionary_loop(_, _, _)

\* parser.rs:122-133: the loop of parse_list and what follows it
parse_list_loop(data, pos, list) ==
    IF pos < Len(data) /\ data[pos + 1] # Ch.e
    THEN LET item == parse(data, pos)
         IN  IF item.status # "ok" THEN item
             ELSE parse_list_loop(data, item.pos, Append(list, item.value))
    ELSE IF pos >= Len(data) THEN ParseErr("Unterminated list", pos)
    ELSE ParseOk(BList(list), pos + 1)

\* parser.rs:118-134
parse_list(data, pos) == parse_list_loop(data, pos + 1, <<>>)

\* parser.rs:140-161: the loop of parse_dictionary and what follows it
parse_dictionary_loop(data, pos, dict) ==
    IF pos < Len(data) /\ data[pos + 1] # Ch.e
    THEN LET key == parse(data, pos)
         IN  IF key.status # "ok" THEN key
             ELSE IF key.value.type # "String"
             THEN ParseErr("Dictionary key must be a string", key.pos)
             ELSE LET val == parse(data, key.pos)
                  IN  IF val.status # "ok" THEN val
                      ELSE parse_dictionary_loop(data, val.pos,
                               insert(dict, key.value.bytes, val.value))
    ELSE IF pos >= Len(data) THEN ParseErr("Unterminated dictionary", pos)
    ELSE ParseOk(BDict(dict), pos + 1)

\* parser.rs:136-162
parse_dictionary(data, pos) == parse_dictionary_loop(data, pos + 1, <<>>)

\* parser.rs:37-53
parse(data, pos) ==
    IF pos >= Len(data) THEN ParseErr("Unexpected end of data", pos)
    ELSE CASE data[pos + 1] = Ch.i -> parse_integer(data, pos)
           [] data[pos + 1] = Ch.l -> parse_list(data, pos)
           [] data[pos + 1] = Ch.d -> parse_dictionary(data, pos)
           [] data[pos + 1] \in Ch.zero..Ch.nine -> parse_string(data, pos)
           [] OTHER -> ParseErr("Unexpected character", pos)

\* keys.sort(): the keys in ascending order of bytes
RECURSIVE sort(_)
sort(keys) ==
    IF keys = {} THEN <<>>
    ELSE LET least == CHOOSE x \in keys : \A y \in keys \ {x} : BytesLess(x, y)
         IN  <<least>> \o sort(keys \ {least})

RECURSIVE bencode_encode(_)
RECURSIVE encode_items(_)
RECURSIVE encode_entries(_, _)

\* parser.rs:270-272
encode_items(list) ==
    IF list = <<>> THEN <<>>
    ELSE bencode_encode(Head(list)) \o encode_items(Tail(list))

\* parser.rs:280-283
encode_entries(dict, keys) ==
    IF keys = <<>> THEN <<>>
    ELSE bencode_encode(BString(Head(keys))) \o bencode_encode(dict[Head(keys)])
            \o encode_entries(dict, Tail(keys))

\* parser.rs:254-288
bencode_encode(v) ==
    CASE v.type = "String" -> to_string(Len(v.bytes)) \o <<Ch.colon>> \o v.bytes
      [] v.type = "Integer" -> <<Ch.i>> \o i64_to_string(v) \o <<Ch.e>>
      [] v.type = "List" -> <<Ch.l>> \o encode_items(v.items) \o <<Ch.e>>
      [] v.type = "Dictionary" ->
            <<Ch.d>> \o encode_entries(v.entries, sort(DOMAIN v.entries)) \o <<Ch.e>>

-----------------------------------------------------------------------------
(* parse_torrent_file (parser.rs:290-428) *)

\* The length of a SHA-1 digest
HashLen == 20

\* b"announce", b"announce-list", b"info", b"name", b"piece length",
\* b"pieces", b"length", b"files", b"path"
Key == [announce |-> <<97, 110, 110, 111, 117, 110, 99, 101>>,
        announce_list |-> <<97, 110, 110, 111, 117, 110, 99, 101, 45, 108, 105, 115, 116>>,
        info |-> <<105, 110, 102, 111>>,
        name |-> <<110, 97, 109, 101>>,
        piece_length |-> <<112, 105, 101, 99, 101, 32, 108, 101, 110, 103, 116, 104>>,
        pieces |-> <<112, 105, 101, 99, 101, 115>>,
        length |-> <<108, 101, 110, 103, 116, 104>>,
        files |-> <<102, 105, 108, 101, 115>>,
        path |-> <<112, 97, 116, 104>>]

\* The largest number that is computed with
IntMax == <<50, 49, 52, 55, 52, 56, 51, 54, 52, 55>>

\* `as u32`, `as u64` and `as u16` of an i64: the number itself when it is
\* not negative and at most IntMax (u16: below 2^16); other numbers, which the
\* cast wraps, are kept as what was cast
cast(v, type) ==
    IF ~v.neg /\ ~DecGreater(v.digits, IntMax)
          /\ (type = "u16" => ~DecGreater(v.digits, to_string(2 ^ 16 - 1)))
    THEN DecToNat(v.digits)
    ELSE [cast |-> type, of |-> v]

\* The result of a step of parse_torrent_file
Got(x) == [status |-> "ok", v |-> x]
Failed(text) == [status |-> "err", error |-> text]

\* parser.rs:204-215
as_string(v) ==
    IF v.type # "String" THEN Failed("Expected string")
    ELSE IF ~from_utf8(v.bytes) THEN Failed("Invalid UTF-8 in string")
    ELSE Got(v.bytes)

\* parser.rs:217-251: as_bytes, as_integer, as_list and as_dict
as_bytes(v) ==
    IF v.type = "String" THEN Got(v.bytes) ELSE Failed("Expected string/bytes")
as_integer(v) ==
    IF v.type = "Integer" THEN Got(v) ELSE Failed("Expected integer")
as_list(v) ==
    IF v.type = "List" THEN Got(v.items) ELSE Failed("Expected list")
as_dict(v) ==
    IF v.type = "Dictionary" THEN Got(v.entries) ELSE Failed("Expected dictionary")

\* dict.get(key).ok_or_else(missing)
get(dict, key, missing) ==
    IF key \in DOMAIN dict THEN Got(dict[key]) ELSE Failed(missing)

\* Each element of the list as a string, or the first error
RECURSIVE strings(_, _)
strings(list, done) ==
    IF list = <<>> THEN Got(done)
    ELSE IF as_string(Head(list)).status # "ok" THEN as_string(Head(list))
    ELSE strings(Tail(list), Append(done, as_string(Head(list)).v))

\* parser.rs:311-321: the tiers of announce-list
RECURSIVE tiers(_, _)
tiers(list, done) ==
    IF list = <<>> THEN Got(done)
    ELSE IF as_list(Head(list)).status # "ok" THEN as_list(Head(list))
    ELSE IF strings(as_list(Head(list)).v, <<>>).status # "ok"
    THEN strings(as_list(Head(list)).v, <<>>)
    ELSE tiers(Tail(list), Append(done, strings(as_list(Head(list)).v, <<>>).v))

\* Option: None and Some(x)
Absent == [present |-> FALSE]
Present(x) == [present |-> TRUE, v |-> x]

\* parser.rs:308-323
announce_list(root_dict) ==
    IF Key.announce_list \notin DOMAIN root_dict THEN Got(Absent)
    ELSE IF as_list(root_dict[Key.announce_list]).status # "ok"
    THEN as_list(root_dict[Key.announce_list])
    ELSE IF tiers(as_list(root_dict[Key.announce_list]).v, <<>>).status # "ok"
    THEN tiers(as_list(root_dict[Key.announce_list]).v, <<>>)
    ELSE Got(Present(tiers(as_list(root_dict[Key.announce_list]).v, <<>>).v))

\* parser.rs:384-405: one element of `files`
file_info(file_value) ==
    LET file_dict == as_dict(file_value)
        length == get(file_dict.v, Key.length, "Missing 'length' in file")
        path_list == get(file_dict.v, Key.path, "Missing 'path' in file")
    IN  IF file_dict.status # "ok" THEN file_dict
        ELSE IF length.status # "ok" THEN length
        ELSE IF as_integer(length.v).status # "ok" THEN as_integer(length.v)
        ELSE IF path_list.status # "ok" THEN path_list
        ELSE IF as_list(path_list.v).status # "ok" THEN as_list(path_list.v)
        ELSE IF strings(as_list(path_list.v).v, <<>>).status # "ok"
        THEN strings(as_list(path_list.v).v, <<>>)
        ELSE Got([path |-> strings(as_list(path_list.v).v, <<>>).v,
                  length |-> cast(length.v, "u64")])

\* parser.rs:383-406: the loop over `files`
RECURSIVE file_infos(_, _)
file_infos(list, done) ==
    IF list = <<>> THEN Got(done)
    ELSE IF file_info(Head(list)).status # "ok" THEN file_info(Head(list))
    ELSE file_infos(Tail(list), Append(done, file_info(Head(list)).v))

\* parser.rs:374-413: `length` is looked up first, and `files` only without it
torrent_files(info_dict) ==
    IF Key.length \in DOMAIN info_dict
    THEN IF as_integer(info_dict[Key.length]).status # "ok"
         THEN as_integer(info_dict[Key.length])
         ELSE Got([kind |-> "Single",
                   length |-> cast(info_dict[Key.length], "u64")])
    ELSE IF Key.files \in DOMAIN info_dict
    THEN IF as_list(info_dict[Key.files]).status # "ok"
         THEN as_list(info_dict[Key.files])
         ELSE IF file_infos(as_list(info_dict[Key.files]).v, <<>>).status # "ok"
         THEN file_infos(as_list(info_dict[Key.files]).v, <<>>)
         ELSE Got([kind |-> "Multiple",
                   files |-> file_infos(as_list(info_dict[Key.files]).v, <<>>).v])
    ELSE Failed("Torrent must have either 'length' or 'files' field")

\* parser.rs:366-371: pieces_bytes.chunks(20)
chunks(bytes) ==
    [j \in 1..(Len(bytes) \div HashLen) |->
        SubSeq(bytes, HashLen * (j - 1) + 1, HashLen * j)]

\* parser.rs:338-420: TorrentInfo from the info dictionary
torrent_info(info_dict) ==
    LET name == get(info_dict, Key.name, "Missing 'name' field in info")
        piece_length == get(info_dict, Key.piece_length, "Missing 'piece length' field")
        pieces == get(info_dict, Key.pieces, "Missing 'pieces' field")
        files == torrent_files(info_dict)
    IN  IF name.status # "ok" THEN name
        ELSE IF as_string(name.v).status # "ok" THEN as_string(name.v)
        ELSE IF piece_length.status # "ok" THEN piece_length
        ELSE IF as_integer(piece_length.v).status # "ok" THEN as_integer(piece_length.v)
        ELSE IF pieces.status # "ok" THEN pieces
        ELSE IF as_bytes(pieces.v).status # "ok" THEN as_bytes(pieces.v)
        ELSE IF Len(pieces.v.bytes) % HashLen # 0
        THEN Failed("Invalid pieces length (must be multiple of 20)")
        ELSE IF files.status # "ok" THEN files
        ELSE Got([name |-> as_string(name.v).v,
                  piece_length |-> cast(piece_length.v, "u32"),
                  pieces |-> chunks(pieces.v.bytes),
                  files |-> files.v])

\* parser.rs:290-428, on the bytes of the file
parse_torrent_file(data) ==
    LET root == parse(data, 0)
        root_dict == as_dict(root.value)
        announce == get(root_dict.v, Key.announce, "Missing 'announce' field")
        info_value == get(root_dict.v, Key.info, "Missing 'info' field")
        info_dict == as_dict(info_value.v)
        \* parser.rs:333-336: the info hash is taken of the parsed value, encoded
    IN  IF root.status = "panic" THEN ParsePanic
        ELSE IF root.status # "ok" THEN Failed(root.error)
        ELSE IF root_dict.status # "ok" THEN root_dict
        ELSE IF announce.status # "ok" THEN announce
        ELSE IF as_string(announce.v).status # "ok" THEN as_string(announce.v)
        ELSE IF announce_list(root_dict.v).status # "ok" THEN announce_list(root_dict.v)
        ELSE IF info_value.status # "ok" THEN info_value
        ELSE IF info_dict.status # "ok" THEN info_dict
        ELSE IF torrent_info(info_dict.v).status # "ok" THEN torrent_info(info_dict.v)
        ELSE [status |-> "ok",
              announce |-> as_string(announce.v).v,
              announce_list |-> announce_list(root_dict.v).v,
              info |-> torrent_info(info_dict.v).v,
              info_hash |-> Sha1(bencode_encode(info_value.v))]

\* parser.rs:175-180
RECURSIVE sum_lengths(_)
sum_lengths(files) ==
    IF files = <<>> THEN 0 ELSE Head(files).length + sum_lengths(Tail(files))

total_size(t) ==
    IF t.info.files.kind = "Single" THEN t.info.files.length
    ELSE sum_lengths(t.info.files.files)

\* The torrent files: an announce URL and an info dictionary with `length`,
\* `files`, both or neither, of up to MaxHashes digests, with the keys in
\* ascending order or in descending order, and with `name` once or twice.
MaxHashes == 3

\* "u", "n", "m", "f", and the texts of the numbers
Word == [u |-> <<117>>, n |-> <<110>>, m |-> <<109>>, f |-> <<102>>]
LengthTexts == { <<49>>, <<52>>, <<53>>, <<48, 53>> }
PieceLengthTexts == { <<50>>, <<43, 50>>, <<48>> }

RawString(bytes) == to_string(Len(bytes)) \o <<Ch.colon>> \o bytes
RawInteger(text) == <<Ch.i>> \o text \o <<Ch.e>>

RECURSIVE Concat(_)
Concat(parts) == IF parts = <<>> THEN <<>> ELSE Head(parts) \o Concat(Tail(parts))

Reverse(parts) == [k \in 1..Len(parts) |-> parts[Len(parts) + 1 - k]]

RawDict(entries) == <<Ch.d>> \o Concat(entries) \o <<Ch.e>>

\* One element of `files`, of the length given and of length 1
RawFile(text) ==
    RawDict(<< RawString(Key.length) \o RawInteger(text),
               RawString(Key.path) \o <<Ch.l>> \o RawString(Word.f) \o <<Ch.e>> >>)

RawFiles(text) ==
    <<Ch.l>> \o RawFile(text) \o RawFile(<<Ch.zero + 1>>) \o <<Ch.e>>

\* The entries of an info dictionary, in ascending order of their keys
InfoEntries(shape, length, piece_length, hashes) ==
    (IF shape \in {"files", "both"}
     THEN << RawString(Key.files) \o RawFiles(length) >> ELSE <<>>)
    \o (IF shape \in {"length", "both"}
        THEN << RawString(Key.length) \o RawInteger(length) >> ELSE <<>>)
    \o << RawString(Key.name) \o RawString(Word.n),
          RawString(Key.piece_length) \o RawInteger(piece_length),
          RawString(Key.pieces)
             \o RawString(Concat([j \in 1..hashes |-> Bytes(HashLen, j)])) >>

RawTorrent(entries, ascending, twice) ==
    RawDict(<< RawString(Key.announce) \o RawString(Word.u),
               RawString(Key.info)
                  \o RawDict((IF ascending THEN entries ELSE Reverse(entries))
                        \o (IF twice
                            THEN << RawString(Key.name) \o RawString(Word.m) >>
                            ELSE <<>>)) >>)

TorrentInputs ==
    { RawTorrent(InfoEntries(shape, length, piece_length, hashes), ascending, twice) :
        shape \in {"length", "files", "both", "neither"},
        length \in LengthTexts, piece_length \in PieceLengthTexts,
        hashes \in 1..MaxHashes, ascending \in BOOLEAN, twice \in BOOLEAN }

-----------------------------------------------------------------------------
(* Specification SpecParse: a BencodeValue is encoded and the bytes parsed, *)
(* or bytes are parsed from some cursor; what was parsed is encoded and     *)
(* parsed again.                                                            *)

\* The values have lists and dictionaries of at most MaxItems atoms, alone or
\* nested once more; the inputs are all texts of at most MaxInputLen bytes
\* over ParseAlphabet, with every starting cursor when they have at most
\* MaxCursorLen bytes, and the texts of PickedInputs.
MaxItems == 2
MaxInputLen == 4
MaxCursorLen == 2

\* "a", "b", "ab", "1:", "e"
Text == [a |-> <<97>>, b |-> <<98>>, ab |-> <<97, 98>>,
         colon |-> <<49, 58>>, e |-> <<101>>]

StringAtoms == { BString(x) : x \in {<<>>, Text.a, Text.ab, Text.colon, Text.e} }
IntegerAtoms ==
    { BInt(0), BInt(7), BInt(0 - 42),
      BInteger(FALSE, I64Max), BInteger(TRUE, I64MinAbs) }
Atoms == StringAtoms \cup IntegerAtoms

DictKeys == {<<>>, Text.a, Text.ab, Text.b}

Lists(S) == { BList(q) : q \in UNION { [1..n -> S] : n \in 0..MaxItems } }
Dicts(S) ==
    { BDict(f) : f \in UNION { [K -> S] :
                    K \in { X \in SUBSET DictKeys : Cardinality(X) \in 0..MaxItems } } }

Flat == Atoms \cup Lists(Atoms) \cup Dicts(Atoms)

Values ==
    Flat \cup { BList(<<x>>) : x \in Flat }
         \cup { BDict([k \in {Text.b} |-> x]) : x \in Flat }
         \cup { BDict([k \in {Text.a, Text.b} |->
                          IF k = Text.a THEN x ELSE BList(<<x, x>>)]) : x \in Flat }

ParseAlphabet ==
    { Ch.i, Ch.l, Ch.d, Ch.e, Ch.colon, Ch.minus, Ch.plus, Ch.zero, Ch.zero + 1,
      Text.a[1] }

\* "i-42e", "i-0e", "i007e", "03:1:a", "18446744073709551615:",
\* "i9223372036854775808e", "i-9223372036854775808e", "d1:ai1e1:bi2ee",
\* "d1:bi2e1:ai1ee", "d1:ai1e1:ai2ee", "d2:abli1e0:e1:bdee", "li1e1:ae"
PickedInputs ==
    { <<105, 45, 52, 50, 101>>,
      <<105, 45, 48, 101>>,
      <<105, 48, 48, 55, 101>>,
      <<48, 51, 58, 49, 58, 97>>,
      <<49, 56, 52, 52, 54, 55, 52, 52, 48, 55, 51, 55, 48, 57, 53, 53, 49, 54, 49, 53, 58>>,
      <<105, 57, 50, 50, 51, 51, 55, 50, 48, 51, 54, 56, 53, 52, 55, 55, 53, 56, 48, 56, 101>>,
      <<105, 45, 57, 50, 50, 51, 51, 55, 50, 48, 51, 54, 56, 53, 52, 55, 55, 53, 56, 48, 56, 101>>,
      <<100, 49, 58, 97, 105, 49, 101, 49, 58, 98, 105, 50, 101, 101>>,
      <<100, 49, 58, 98, 105, 50, 101, 49, 58, 97, 105, 49, 101, 101>>,
      <<100, 49, 58, 97, 105, 49, 101, 49, 58, 97, 105, 50, 101, 101>>,
      <<100, 50, 58, 97, 98, 108, 105, 49, 101, 48, 58, 101, 49, 58, 98, 100, 101, 101>>,
      <<108, 105, 49, 101, 49, 58, 97, 101>> }

Inputs ==
    UNION { [1..n -> ParseAlphabet] : n \in 0..MaxInputLen }
        \cup PickedInputs \cup TorrentInputs

\* The cursors a parser of the input may start at
Cursors(data) ==
    IF Len(data) <= MaxCursorLen THEN 0..(Len(data) + 1) ELSE {0}

\* parser.rs:33-35: a value to encode, or the input and the cursor of a parser
InitParse ==
    /\ NoInserts /\ NoRun /\ NoWire
    /\ torrent \in { Descriptor(2, 2, << <<1, 1>> >>) }
    /\ ui_sender = "none"
    /\ stop_signal = FALSE
    /\ NewDownloader
    /\ sizes = <<>>
    /\ \/ /\ value \in Values
          /\ parser_data = <<>>
          /\ position = 0
       \/ /\ value = [type |-> "nothing"]
          /\ parser_data \in Inputs
          /\ position \in Cursors(parser_data)
    /\ parsed = [status |-> "nothing"]
    /\ encoded = <<>>
    /\ reparsed = [status |-> "nothing"]
    /\ torrent_file = [status |-> "nothing"]
    /\ NoQuery
    /\ compact = FALSE
    /\ response = [status |-> "nothing"]

\* parser.rs:254: bencode_encode(value), and a parser of the result
Encode ==
    /\ value.type # "nothing"
    /\ parser_data = <<>>
    /\ parser_data' = bencode_encode(value)
    /\ position' = 0
    /\ UNCHANGED <<value, parsed, encoded, reparsed, torrent_file>>
    /\ UNCHANGED <<sizes, tracker_vars, inserted, wire_vars, run_vars,
                   download_rest, torrent, ui_sender, stop_signal, err, events,
                   piece_buffer>>

\* The result of parse and the cursor it was called at.  A parse that returns
\* leaves the cursor where the result says.
Called(result, pos) ==
    [c \in (DOMAIN result) \cup {"from"} |-> IF c = "from" THEN pos ELSE result[c]]

\* parser.rs:37: parser.parse()
Parse ==
    /\ parsed.status = "nothing"
    /\ value.type = "nothing" \/ parser_data # <<>>
    /\ torrent_file.status = "nothing"
    /\ parsed' = Called(parse(parser_data, position), position)
    /\ position' = IF parsed'.status = "panic" THEN position ELSE parsed'.pos
    /\ UNCHANGED <<value, parser_data, encoded, reparsed, torrent_file>>
    /\ UNCHANGED <<sizes, tracker_vars, inserted, wire_vars, run_vars,
                   download_rest, torrent, ui_sender, stop_signal, err, events,
                   piece_buffer>>

\* bencode_encode of the value that was parsed
EncodeParsed ==
    /\ parsed.status = "ok"
    /\ encoded = <<>>
    /\ encoded' = bencode_encode(parsed.value)
    /\ UNCHANGED <<value, parser_data, position, parsed, reparsed, torrent_file>>
    /\ UNCHANGED <<sizes, tracker_vars, inserted, wire_vars, run_vars,
                   download_rest, torrent, ui_sender, stop_signal, err, events,
                   piece_buffer>>

\* BencodeParser::new(&encoded).parse()
Reparse ==
    /\ encoded # <<>>
    /\ reparsed.status = "nothing"
    /\ reparsed' = parse(encoded, 0)
    /\ UNCHANGED <<value, parser_data, position, parsed, encoded, torrent_file>>
    /\ UNCHANGED <<sizes, tracker_vars, inserted, wire_vars, run_vars,
                   download_rest, torrent, ui_sender, stop_signal, err, events,
                   piece_buffer>>

\* parser.rs:290: parse_torrent_file of a file with these bytes
ParseTorrentFile ==
    /\ value.type = "nothing"
    /\ position = 0
    /\ parsed.status = "nothing"
    /\ torrent_file.status = "nothing"
    /\ torrent_file' = parse_torrent_file(parser_data)
    /\ UNCHANGED <<value, parser_data, position, parsed, encoded, reparsed>>
    /\ UNCHANGED <<sizes, tracker_vars, inserted, wire_vars, run_vars,
                   download_rest, torrent, ui_sender, stop_signal, err, events,
                   piece_buffer>>

NextParse == Encode \/ Parse \/ EncodeParsed \/ Reparse \/ ParseTorrentFile

SpecParse == InitParse /\ [][NextParse]_vars

-----------------------------------------------------------------------------
(* The response of the tracker (tracker.rs:153-361).  Specification         *)
(* SpecTracker: announce decodes the bytes of a response, for a request     *)
(* with the compact flag set or not.                                        *)

\* The length of a compact peer
PeerLen == 6

\* b"failure reason", b"warning message", b"interval", b"min interval",
\* b"tracker id", b"complete", b"incomplete", b"downloaded", b"peers",
\* b"ip", b"port", b"peer id"
TrackerKey ==
    [failure_reason |-> <<102, 97, 105, 108, 117, 114, 101, 32, 114, 101, 97, 115, 111, 110>>,
     warning_message |-> <<119, 97, 114, 110, 105, 110, 103, 32, 109, 101, 115, 115, 97, 103, 101>>,
     interval |-> <<105, 110, 116, 101, 114, 118, 97, 108>>,
     min_interval |-> <<109, 105, 110, 32, 105, 110, 116, 101, 114, 118, 97, 108>>,
     tracker_id |-> <<116, 114, 97, 99, 107, 101, 114, 32, 105, 100>>,
     complete |-> <<99, 111, 109, 112, 108, 101, 116, 101>>,
     incomplete |-> <<105, 110, 99, 111, 109, 112, 108, 101, 116, 101>>,
     downloaded |-> <<100, 111, 119, 110, 108, 111, 97, 100, 101, 100>>,
     peers |-> <<112, 101, 101, 114, 115>>,
     ip |-> <<105, 112>>,
     port |-> <<112, 111, 114, 116>>,
     peer_id |-> <<112, 101, 101, 114, 32, 105, 100>>]

\* b'.', b'<' and U+FFFD
Sign == [dot |-> 46, lt |-> 60, replacement |-> 65533]

\* String::from_utf8_lossy, for bytes without multi-byte sequences
from_utf8_lossy(bytes) ==
    [k \in 1..Len(bytes) |-> IF bytes[k] < 128 THEN bytes[k] ELSE Sign.replacement]

\* The parts of the text between the dots
RECURSIVE Split(_)
Split(text) ==
    IF ScanTo(text, 0, Sign.dot) >= Len(text) THEN <<text>>
    ELSE <<SubSeq(text, 1, ScanTo(text, 0, Sign.dot))>>
            \o Split(SubSeq(text, ScanTo(text, 0, Sign.dot) + 2, Len(text)))

\* str::parse::<IpAddr> of a text that is no IPv6 address: four numbers of at
\* most three digits, without leading zeros and at most 255, between dots
parse_ip(text) ==
    LET parts == Split(text)
    IN  IF /\ Len(parts) = 4
           /\ \A k \in 1..4 :
                 /\ Len(parts[k]) \in 1..3
                 /\ IsDigits(parts[k])
                 /\ StripZeros(parts[k]) = parts[k]
                 /\ DecToNat(parts[k]) <= 255
        THEN Got([k \in 1..4 |-> DecToNat(parts[k])])
        ELSE Failed("Invalid IP address")

\* tracker.rs:303-311: the peers of the chunks of six bytes
compact_peers(bytes) ==
    [j \in 1..(Len(bytes) \div PeerLen) |->
        [ip |-> SubSeq(bytes, PeerLen * (j - 1) + 1, PeerLen * (j - 1) + 4),
         port |-> from_be_bytes16(SubSeq(bytes, PeerLen * (j - 1) + 5, PeerLen * j)),
         peer_id |-> Absent]]

\* tracker.rs:290-314
parse_compact_peers(peers_value) ==
    IF as_bytes(peers_value).status # "ok" THEN Failed("Compact peers must be bytes")
    ELSE IF Len(peers_value.bytes) % PeerLen # 0
    THEN Failed("Invalid compact peers length")
    ELSE Got(compact_peers(peers_value.bytes))

\* tracker.rs:323-357: one element of the list of peers
dict_peer(peer_value) ==
    IF as_dict(peer_value).status # "ok" THEN Failed("Peer must be a dictionary")
    ELSE LET peer_dict == peer_value.entries
         IN  IF TrackerKey.ip \notin DOMAIN peer_dict THEN Failed("Missing peer IP")
             ELSE IF as_bytes(peer_dict[TrackerKey.ip]).status # "ok"
             THEN Failed("Invalid peer IP")
             ELSE IF parse_ip(from_utf8_lossy(peer_dict[TrackerKey.ip].bytes)).status # "ok"
             THEN Failed("Invalid IP address")
             ELSE IF TrackerKey.port \notin DOMAIN peer_dict
             THEN Failed("Missing peer port")
             ELSE IF as_integer(peer_dict[TrackerKey.port]).status # "ok"
             THEN Failed("Invalid peer port")
             ELSE Got([ip |-> parse_ip(from_utf8_lossy(peer_dict[TrackerKey.ip].bytes)).v,
                       port |-> cast(peer_dict[TrackerKey.port], "u16"),
                       peer_id |->
                          IF TrackerKey.peer_id \notin DOMAIN peer_dict THEN Absent
                          ELSE IF peer_dict[TrackerKey.peer_id].type = "String"
                          THEN Present(peer_dict[TrackerKey.peer_id].bytes)
                          ELSE Present(<<>>)])

\* tracker.rs:321-358: the loop over the list of peers
RECURSIVE dict_peers(_, _)
dict_peers(list, done) ==
    IF list = <<>> THEN Got(done)
    ELSE IF dict_peer(Head(list)).status # "ok" THEN dict_peer(Head(list))
    ELSE dict_peers(Tail(list), Append(done, dict_peer(Head(list)).v))

\* tracker.rs:316-361
parse_dict_peers(peers_value) ==
    IF as_list(peers_value).status # "ok"
    THEN Failed("Non-compact peers must be a list")
    ELSE dict_peers(peers_value.items, <<>>)

\* tracker.rs:267-275: the decoder is chosen by the compact flag of the
\* request; a response without peers has none
parse_peers(response_dict, flag) ==
    IF TrackerKey.peers \notin DOMAIN response_dict THEN Got(<<>>)
    ELSE IF flag THEN parse_compact_peers(response_dict[TrackerKey.peers])
    ELSE parse_dict_peers(response_dict[TrackerKey.peers])

\* .map(|v| String::from_utf8_lossy(v.as_bytes().unwrap_or(b"")).to_string())
optional_text(dict, key) ==
    IF key \notin DOMAIN dict THEN Absent
    ELSE IF dict[key].type = "String" THEN Present(from_utf8_lossy(dict[key].bytes))
    ELSE Present(<<>>)

\* .map(|v| v.as_integer().unwrap_or(0) as u32)
optional_u32(dict, key) ==
    IF key \notin DOMAIN dict THEN Absent
    ELSE IF dict[key].type = "Integer" THEN Present(cast(dict[key], "u32"))
    ELSE Present(0)

\* .unwrap_or(0)
unwrap_or_0(option) == IF option.present THEN option.v ELSE 0

\* tracker.rs:198-287: announce from the bytes of the response on
announce(data, flag) ==
    LET response_value == parse(data, 0)
        response_dict == response_value.value.entries
    IN  IF data # <<>> /\ data[1] = Sign.lt
        THEN Failed("Tracker returned HTML instead of bencode")
        ELSE IF response_value.status = "panic" THEN ParsePanic
        ELSE IF response_value.status # "ok" THEN Failed(response_value.error)
        ELSE IF as_dict(response_value.value).status # "ok"
        THEN Failed("Tracker response is not a dictionary")
        ELSE IF TrackerKey.failure_reason \in DOMAIN response_dict
        THEN IF as_bytes(response_dict[TrackerKey.failure_reason]).status # "ok"
             THEN Failed("Invalid failure reason")
             ELSE Failed("Tracker failure")
        ELSE IF TrackerKey.interval \notin DOMAIN response_dict
        THEN Failed("Missing interval field")
        ELSE IF as_integer(response_dict[TrackerKey.interval]).status # "ok"
        THEN Failed("Invalid interval")
        ELSE IF parse_peers(response_dict, flag).status # "ok"
        THEN parse_peers(response_dict, flag)
        ELSE [status |-> "ok",
              failure_reason |-> Absent,
              warning_message |-> optional_text(response_dict, TrackerKey.warning_message),
              interval |-> cast(response_dict[TrackerKey.interval], "u32"),
              min_interval |-> optional_u32(response_dict, TrackerKey.min_interval),
              tracker_id |-> optional_text(response_dict, TrackerKey.tracker_id),
              complete |-> unwrap_or_0(optional_u32(response_dict, TrackerKey.complete)),
              incomplete |-> unwrap_or_0(optional_u32(response_dict, TrackerKey.incomplete)),
              downloaded |-> optional_u32(response_dict, TrackerKey.downloaded),
              peers |-> parse_peers(response_dict, flag).v]

\* The responses hold up to MaxTrackerPeers peers, as compact bytes or as a
\* list of dictionaries, with or without `interval`, `failure reason` and
\* `complete`.
MaxTrackerPeers == 2

\* "h", "x", "<html>", "i1e", "1800", "5"
TrackerText == [h |-> <<104>>, x |-> <<120>>, html |-> <<60, 104, 116, 109, 108, 62>>,
                one |-> <<105, 49, 101>>, interval |-> <<49, 56, 48, 48>>, five |-> <<53>>]

\* Peer j has the address 10.0.0.j and the port 6880 + j
CompactPeer(j) == <<10, 0, 0, j, 26, 224 + j>>

IpText(j) ==
    to_string(10) \o <<Sign.dot>> \o to_string(0) \o <<Sign.dot>> \o to_string(0)
        \o <<Sign.dot>> \o to_string(j)

DictPeer(ip, j, with_id) ==
    RawDict(<< RawString(TrackerKey.ip) \o RawString(ip) >>
            \o (IF with_id
                THEN << RawString(TrackerKey.peer_id) \o RawString(Bytes(HashLen, j)) >>
                ELSE <<>>)
            \o << RawString(TrackerKey.port) \o RawInteger(to_string(6880 + j)) >>)

\* What the tracker may send as `peers`
PeersFields ==
    { RawString(Concat([j \in 1..k |-> CompactPeer(j)])) : k \in 0..MaxTrackerPeers }
        \cup { RawString(SubSeq(CompactPeer(1), 1, PeerLen - 1)) }
        \cup { <<Ch.l>> \o Concat([j \in 1..k |-> DictPeer(IpText(j), j, with_id)])
                      \o <<Ch.e>> : k \in 0..MaxTrackerPeers, with_id \in BOOLEAN }
        \cup { <<Ch.l>> \o DictPeer(TrackerText.h, 1, FALSE) \o <<Ch.e>>,
               TrackerText.one }

TrackerInputs ==
    { RawDict((IF with_complete
               THEN << RawString(TrackerKey.complete) \o RawInteger(TrackerText.five) >>
               ELSE <<>>)
              \o (IF failure
                  THEN << RawString(TrackerKey.failure_reason) \o RawString(TrackerText.x) >>
                  ELSE <<>>)
              \o (IF with_interval
                  THEN << RawString(TrackerKey.interval)
                             \o RawInteger(TrackerText.interval) >>
                  ELSE <<>>)
              \o field) :
        with_complete \in BOOLEAN, failure \in BOOLEAN, with_interval \in BOOLEAN,
        field \in { << RawString(TrackerKey.peers) \o x >> : x \in PeersFields }
                    \cup { <<>> } }
        \cup { <<>>, TrackerText.html, TrackerText.one }

\* tracker.rs:153-157: the request has its compact flag, and the tracker has
\* sent the bytes of its response
InitTracker ==
    /\ NoInserts /\ NoRun /\ NoWire
    /\ torrent \in { Descriptor(2, 2, << <<1, 1>> >>) }
    /\ ui_sender = "none"
    /\ stop_signal = FALSE
    /\ NewDownloader
    /\ sizes = <<>>
    /\ value = [type |-> "nothing"]
    /\ parser_data \in TrackerInputs
    /\ position = 0
    /\ parsed = [status |-> "nothing"]
    /\ encoded = <<>>
    /\ reparsed = [status |-> "nothing"]
    /\ torrent_file = [status |-> "nothing"]
    /\ NoQuery
    /\ compact \in BOOLEAN
    /\ response = [status |-> "nothing"]

\* tracker.rs:198-287: the response is decoded
DecodeResponse ==
    /\ response.status = "nothing"
    /\ response' = announce(parser_data, compact)
    /\ UNCHANGED <<compact, query_vars, sizes, parse_vars, inserted, wire_vars, run_vars,
                   download_rest, torrent, ui_sender, stop_signal, err, events,
                   piece_buffer>>

NextTracker == DecodeResponse

SpecTracker == InitTracker /\ [][NextTracker]_vars

-----------------------------------------------------------------------------
(* The peer id and the fields of the announce query (tracker.rs:130-185,
   363-378) *)

IdLen == 20
PrefixLen == 8

\* "{:02X}": two hexadecimal digits, the letters in upper case
hex_digit(d) == IF d < 10 THEN Ch.zero + d ELSE 55 + d
percent_byte(byte) == <<37, hex_digit(byte \div 16), hex_digit(byte % 16)>>

is_alphanumeric(byte) ==
    \/ byte \in 48..57
    \/ byte \in 65..90
    \/ byte \in 97..122

\* tracker.rs:368: b'A'..=b'Z' | b'a'..=b'z' | b'0'..=b'9' | b'-' | b'_' | b'.' | b'~'
is_unreserved(byte) == is_alphanumeric(byte) \/ byte \in {45, 95, 46, 126}

\* tracker.rs:160: NON_ALPHANUMERIC of the crate percent_encoding is every
\* ASCII byte that is no letter and no digit; a byte above 127 is encoded
\* whatever the set
NON_ALPHANUMERIC(byte) == ~is_alphanumeric(byte)

\* The query encode set of the crate url (Url::set_query): controls, space,
\* the double quote, #, < and >, and every byte above 126
QUERY(byte) == byte < 33 \/ byte > 126 \/ byte \in {34, 35, 60, 62}

\* tracker.rs:363-378
url_encode_bytes(bytes) ==
    Concat([k \in 1..Len(bytes) |->
               IF is_unreserved(bytes[k]) THEN <<bytes[k]>> ELSE percent_byte(bytes[k])])

\* tracker.rs:163-164: percent_encode(&request.info_hash, NON_ALPHANUMERIC)
percent_encode(bytes) ==
    Concat([k \in 1..Len(bytes) |->
               IF NON_ALPHANUMERIC(bytes[k]) THEN percent_byte(bytes[k]) ELSE <<bytes[k]>>])

\* tracker.rs:185: url.set_query(Some(&query)) encodes what the query set
\* names and leaves the rest, a % included
set_query(text) ==
    Concat([k \in 1..Len(text) |->
               IF QUERY(text[k]) THEN percent_byte(text[k]) ELSE <<text[k]>>])

\* tracker.rs:130-147: the prefix, then twelve times rand::random::<u8>()
generate_peer_id(tail) == <<45, 113, 66, 52, 53, 48, 48, 45>> \o tail

MaxFieldLen == 2

\* Bytes of each kind: a letter, a digit, the four marks, %, space, +, /,
\* a control and bytes above 127
FieldBytes == {65, 122, 48, 45, 95, 46, 126, 37, 32, 43, 47, 10, 128, 255}

\* Every single byte, the strings of FieldBytes, and the string of the
\* repository's test (tracker.rs:468)
FieldInputs ==
    { <<byte>> : byte \in 0..255 }
    \cup UNION { [1..k -> FieldBytes] : k \in 0..MaxFieldLen }
    \cup { <<72, 101, 108, 108, 111, 32, 87, 111, 114, 108, 100, 33>> }

\* What the twelve random bytes are drawn from: twelve equal bytes
RandomTails == { Bytes(IdLen - PrefixLen, byte) : byte \in 0..255 }

InitQuery ==
    /\ NoInserts /\ NoRun /\ NoWire
    /\ torrent \in { Descriptor(2, 2, << <<1, 1>> >>) }
    /\ ui_sender = "none"
    /\ stop_signal = FALSE
    /\ NewDownloader
    /\ sizes = <<>>
    /\ value = [type |-> "nothing"]
    /\ parser_data = <<>>
    /\ position = 0
    /\ parsed = [status |-> "nothing"]
    /\ encoded = <<>>
    /\ reparsed = [status |-> "nothing"]
    /\ torrent_file = [status |-> "nothing"]
    /\ compact = TRUE
    /\ response = [status |-> "nothing"]
    /\ raw_field \in { [status |-> "nothing"] } \cup { Got(bytes) : bytes \in FieldInputs }
    /\ url_encoded = [status |-> "nothing"]
    /\ query_encoded = [status |-> "nothing"]
    /\ generated = [status |-> "nothing"]

QueryRest ==
    UNCHANGED <<compact, response, sizes, parse_vars, inserted, wire_vars, run_vars,
                download_rest, torrent, ui_sender, stop_signal, err, events,
                piece_buffer>>

\* tracker.rs:108-118, 381-390: TrackerClient::new generates the peer id,
\* which is the peer_id of every request
GeneratePeerId ==
    /\ raw_field.status = "nothing"
    /\ \E tail \in RandomTails :
        /\ generated' = Got(generate_peer_id(tail))
        /\ raw_field' = Got(generate_peer_id(tail))
    /\ UNCHANGED <<url_encoded, query_encoded>>
    /\ QueryRest

\* tracker.rs:363-378
UrlEncode ==
    /\ raw_field.status = "ok"
    /\ url_encoded.status = "nothing"
    /\ url_encoded' = Got(url_encode_bytes(raw_field.v))
    /\ UNCHANGED <<raw_field, query_encoded, generated>>
    /\ QueryRest

\* tracker.rs:160-185: the field as the query of the announce URL holds it
QueryEncode ==
    /\ raw_field.status = "ok"
    /\ query_encoded.status = "nothing"
    /\ query_encoded' = Got(set_query(percent_encode(raw_field.v)))
    /\ UNCHANGED <<raw_field, url_encoded, generated>>
    /\ QueryRest

NextQuery == GeneratePeerId \/ UrlEncode \/ QueryEncode

SpecQuery == InitQuery /\ [][NextQuery]_vars

-----------------------------------------------------------------------------
(* parse_compact_peers on the values a response can hold under "peers" *)

MaxCompactPeers == 2

\* 6-byte groups: the one of tests::test_compact_peer_parsing (tracker.rs:475)
\* and groups with other ports and addresses
PeerGroups ==
    { <<192, 168, 1, 1, 26, 225>>, <<10, 0, 0, 2, 0, 80>>,
      <<255, 255, 255, 255, 255, 254>>, <<0, 0, 0, 0, 1, 0>> }

GroupLists == UNION { [1..k -> PeerGroups] : k \in 0..MaxCompactPeers }

\* What follows the last whole group: nothing, or one to five bytes
GroupTails == { SubSeq(<<172, 16, 0, 9, 200>>, 1, k) : k \in 0..(PeerLen - 1) }

PeersValues ==
    { BString(Concat(groups) \o tail) : groups \in GroupLists, tail \in GroupTails }
    \cup { BInt(6), BList(<<>>), BList(<<BString(<<10, 0, 0, 2, 0, 80>>)>>) }

InitPeers ==
    /\ NoInserts /\ NoRun /\ NoWire
    /\ torrent \in { Descriptor(2, 2, << <<1, 1>> >>) }
    /\ ui_sender = "none"
    /\ stop_signal = FALSE
    /\ NewDownloader
    /\ sizes = <<>>
    /\ value \in PeersValues
    /\ parser_data = <<>>
    /\ position = 0
    /\ parsed = [status |-> "nothing"]
    /\ encoded = <<>>
    /\ reparsed = [status |-> "nothing"]
    /\ torrent_file = [status |-> "nothing"]
    /\ NoQuery
    /\ compact = TRUE
    /\ response = [status |-> "nothing"]

\* tracker.rs:290-314
ParseCompactPeers ==
    /\ response.status = "nothing"
    /\ response' = parse_compact_peers(value)
    /\ UNCHANGED <<compact, query_vars, sizes, parse_vars, inserted, wire_vars, run_vars,
                   download_rest, torrent, ui_sender, stop_signal, err, events,
                   piece_buffer>>

NextPeers == ParseCompactPeers

SpecPeers == InitPeers /\ [][NextPeers]_vars

-----------------------------------------------------------------------------
(* Properties of download *)

\* The Requests sent so far for piece p, in the order sent
RequestsFor(p) == SelectSeq(sent, LAMBDA m : m.type = "Request" /\ m.index = p)

\* The cells of the file that hold piece p
FilePiece(p) ==
    [c \in 1..get_piece_size(p) |-> FileCell(p * torrent.piece_length + c)]

\* Piece p is in the file as published and is marked
PieceDone(p) ==
    /\ completed_pieces[p + 1]
    /\ Sha1(FilePiece(p)) = torrent.pieces[p + 1]

\* Bit p of a bitfield, MSB-first
BitSet(bits, p) ==
    /\ p \div 8 < Len(bits)
    /\ (bits[(p \div 8) + 1] \div (2 ^ (7 - (p % 8)))) % 2 = 1

CeilDiv(a, b) == (a + b - 1) \div b

CompletedEvents == SelectSeq(events, LAMBDA e : e.type = "PieceCompleted")

\* This step delivers a PieceCompleted event
PieceCompletedEmitted ==
    /\ Len(events') = Len(events) + 1
    /\ events'[Len(events')].type = "PieceCompleted"

\* C1: a step writes the file, marks a piece or emits PieceCompleted only from
\* verify_and_write_piece with the SHA-1 of the assembled piece equal to
\* pieces[piece_index]; with a different SHA-1 the call fails and the file, the
\* completion bitmap and the events stay as they were.
C1_WriteOnlyVerified ==
    [][ /\ (output_file' # output_file \/ completed_pieces' # completed_pieces
              \/ PieceCompletedEmitted)
           => (pc = "verify" /\ Sha1(piece_data) = torrent.pieces[piece_index + 1])
        /\ (pc = "verify" /\ Sha1(piece_data) # torrent.pieces[piece_index + 1])
           => /\ pc' \in {"verify", "failed"}
              /\ pc' = "failed" => err' = "Piece failed hash verification"
              /\ UNCHANGED <<output_file, completed_pieces, events>> ]_vars

\* C1 witness: piece 1 failed its hash check after piece 0 was written
C1_Witness ==
    /\ pc = "failed"
    /\ err = "Piece failed hash verification"
    /\ piece_index = 1
    /\ PieceDone(0)
    /\ ~completed_pieces[2]

\* C2: the PieceCompleted events carry strictly ascending piece indices.
C2_CompletedAscending ==
    \A i, j \in 1..Len(CompletedEvents) :
        i < j => CompletedEvents[i].index < CompletedEvents[j].index

\* C2 witness: three pieces were completed
C2_Witness == Len(CompletedEvents) = 3

\* C3: every piece below the index of a Request that was sent is verified,
\* written and marked, and no Request is for a piece above the current one.
C3_OnePieceInFlight ==
    \A i \in 1..Len(sent) :
        sent[i].type = "Request" =>
            /\ sent[i].index <= piece_index
            /\ \A p \in 0..(sent[i].index - 1) : PieceDone(p)

\* C3 witness: a Request for the third piece was sent
C3_Witness == RequestsFor(2) # <<>>

\* C4: once a message was read in the receive phase of a piece, all
\* ceil(piece_size / BLOCK_SIZE) Requests of the piece had been sent.
C4_RequestsPipelined ==
    (pc \in {"receive", "verify", "failed"} /\ msgs_read > 0)
        => Len(RequestsFor(piece_index))
             = CeilDiv(get_piece_size(piece_index), BlockCells)

\* C4 witness: a message was read for a piece of two blocks
C4_Witness ==
    /\ pc = "receive"
    /\ msgs_read > 0
    /\ CeilDiv(get_piece_size(piece_index), BlockCells) = 2

\* C5: when the receive phase of piece p starts, the Requests sent for p are
\* one per k in 0..ceil(s/BLOCK_SIZE)-1, with index p, begin k*BLOCK_SIZE and
\* length min(BLOCK_SIZE, s - k*BLOCK_SIZE), s = piece_size(p) >= 1.
C5_RequestsExact ==
    (pc = "receive" /\ get_piece_size(piece_index) >= 1)
        => LET s == get_piece_size(piece_index)
               reqs == RequestsFor(piece_index)
           IN  /\ Len(reqs) = CeilDiv(s, BlockCells)
               /\ \A k \in 0..(Len(reqs) - 1) :
                    /\ reqs[k + 1].begin = k * BlockCells
                    /\ reqs[k + 1].length = Min(BlockCells, s - k * BlockCells)
                    /\ reqs[k + 1].length \in 1..BlockCells

\* C6: a Request is sent only after an Unchoke; the initialization phase reads
\* at most 10 messages, and after 10 messages without Unchoke the download has
\* failed as never unchoked with no Request sent and nothing written.
C6_NeverUnchoked ==
    /\ messages_received <= 10
    /\ (\E i \in 1..Len(sent) : sent[i].type = "Request") => ~peer_choked
    /\ (messages_received = 10 /\ peer_choked)
         => /\ pc = "failed"
            /\ err = "Peer never unchoked us"
            /\ \A i \in 1..Len(sent) : sent[i].type # "Request"
            /\ DOMAIN output_file.data = {}
    /\ err = "Peer never unchoked us" => messages_received = 10

\* C6 witness: ten messages, among them a Bitfield, and no Unchoke
C6_Witness ==
    /\ err = "Peer never unchoked us"
    /\ peer_bitfield.some

\* C7: a Request for piece p is sent only if bit p of the recorded bitfield
\* is set; when it is not, the download has failed as peer-missing-piece with
\* no Request for p or a later piece, and the pieces before p are complete.
C7_PeerMissingPiece ==
    /\ \A i \in 1..Len(sent) :
          sent[i].type = "Request"
              => peer_bitfield.some /\ BitSet(peer_bitfield.bits, sent[i].index)
    /\ err = "Peer doesn't have piece"
         => /\ pc = "failed"
            /\ ~(peer_bitfield.some /\ BitSet(peer_bitfield.bits, piece_index))
            /\ \A i \in 1..Len(sent) :
                  sent[i].type = "Request" => sent[i].index < piece_index
            /\ \A p \in 0..(piece_index - 1) : PieceDone(p)

\* C7 witness: the peer lacks piece 1 after piece 0 was completed
C7_Witness ==
    /\ err = "Peer doesn't have piece"
    /\ piece_index = 1
    /\ completed_pieces[1]

\* C8: after the initialization phase the availability check succeeds for
\* every i < piece count of a Have(i) read since the last Bitfield.
C8_HaveRecorded ==
    (pc = "piece_loop" /\ piece_index = 0)
        => \A i \in have_seen : can_download_piece(i)

\* C9: after a Choke read while blocks are awaited the download has failed
\* with the piece neither written nor marked, and a download that has
\* returned sends, reads and writes nothing more.
C9_ChokeFatal ==
    /\ [](choke_seen
            => /\ pc = "failed"
               /\ err = "Peer choked us during download"
               /\ ~completed_pieces[piece_index + 1]
               /\ \A c \in DOMAIN output_file.data :
                     c <= piece_index * torrent.piece_length)
    /\ [][ (pc \in {"failed", "done"})
             => (UNCHANGED <<pc, err, sent, msgs_read, messages_received,
                             output_file, completed_pieces, events>>) ]_vars

\* C9 witness: a Choke was read while the second piece was awaited
C9_Witness ==
    /\ choke_seen
    /\ piece_index = 1
    /\ msgs_read > 1

\* C10: while the blocks of a piece of n blocks are awaited, at most 2 * n
\* messages have been read.
C10_ReadsCapped ==
    pc = "receive" => msgs_read <= 2 * num_blocks

\* C11: a stop flag that is set when the head of a piece iteration or of a
\* block-receive iteration is reached makes that step return the error
\* "Download stopped by user" with no Request sent, no message read and
\* nothing written or marked; the error is returned only with the flag set,
\* and nothing is sent, read or written after it.
C11_StopObserved ==
    /\ [](err = "Download stopped by user" => (stop_signal /\ pc = "failed"))
    /\ [][ (stop_signal /\ \/ (pc = "piece_loop" /\ piece_index < NumPieces)
                           \/ (pc = "receive" /\ ~is_complete(piece_buffer)
                                 /\ blocks_received < num_blocks * 2))
             => (/\ pc' = "failed"
                 /\ err' = "Download stopped by user"
                 /\ UNCHANGED <<sent, msgs_read, output_file, completed_pieces>>) ]_vars
    /\ [][ (err = "Download stopped by user")
             => (UNCHANGED <<pc, err, sent, msgs_read, messages_received,
                             output_file, completed_pieces>>) ]_vars

\* C11 witness: the flag was observed while the blocks of the second piece
\* were awaited
C11_Witness ==
    /\ err = "Download stopped by user"
    /\ piece_index = 1
    /\ RequestsFor(1) # <<>>
    /\ completed_pieces[1]

\* The events of run_download that report the failure of a download call
\* aborted by the stop flag
StopErrors ==
    SelectSeq(events, LAMBDA e :
        e.type = "Error" /\ e.text = <<"Download failed", "Download stopped by user">>)

\* C12: when the download with the last peer attempted was aborted by the
\* stop flag, the observer has received no Error event for it, and has
\* received DownloadStopped once run_download has returned.
C12_StoppedNotError ==
    (/\ ui_sender = "alive"
     /\ attempts # <<>>
     /\ attempts[Len(attempts)].result = "Download stopped by user")
        => /\ StopErrors = <<>>
           /\ run_pc = "returned"
                => \E i \in 1..Len(events) : events[i].type = "DownloadStopped"

\* The results with which an attempt has failed
FailedResults == {"connection failed", "downloader failed"} \cup DownloadErrors

\* C14: the i-th attempt is with the i-th peer of the list, and every attempt
\* but the last one has failed: in the connection, in the creation of the
\* downloader or in the download.  (No attempt follows one that succeeded.)
C14_PeersInOrder ==
    /\ Len(attempts) <= peers
    /\ \A i \in 1..Len(attempts) :
          /\ attempts[i].peer = i - 1
          /\ i < Len(attempts) => attempts[i].result \in FailedResults
    /\ connected <=> (attempts # <<>> /\ attempts[Len(attempts)].result = "ok")

\* C14 witness: the second peer served the download after the download with
\* the first one had failed
C14_Witness ==
    /\ Len(attempts) = 2
    /\ attempts[1].result = "Peer never unchoked us"
    /\ attempts[2].result = "ok"
    /\ run_pc = "returned"

\* C15: the step that completes piece p (of size s, at offset p times
\* piece_length) writes the s cells of the assembled piece there, every block
\* the piece buffer accepted lies in them at its begin offset, and no other
\* cell and not the length of the file changes.
C15_PieceWritten ==
    [][ (completed_pieces' # completed_pieces)
          => LET p == piece_index
                 s == get_piece_size(p)
                 offset == p * torrent.piece_length
             IN  /\ \A c \in 1..s : (offset + c) \in DOMAIN output_file'.data
                 /\ \A c \in DOMAIN output_file'.data :
                       (c <= offset \/ c > offset + s)
                          => (/\ c \in DOMAIN output_file.data
                              /\ output_file'.data[c] = output_file.data[c])
                 /\ output_file'.len = output_file.len
                 /\ \A block \in piece_buffer.blocks :
                       \A i \in 1..Len(block.data) :
                          /\ block.begin + i <= s
                          /\ output_file'.data[offset + block.begin + i] = block.data[i]
      ]_vars

\* C16: a session is created only from a handshake of the peer with first
\* byte 19, the protocol string "BitTorrent protocol" and the info_hash that
\* the client sent.
C16_HandshakeValidated ==
    (received.kind = "session" /\ received.ok)
        => /\ peer_sent.bytes[1] = 19
           /\ SubSeq(peer_sent.bytes, 2, 20) = BT_PROTOCOL
           /\ SubSeq(peer_sent.bytes, 29, 48) = ClientInfoHash

\* C17: deserialize returns the info_hash and the peer_id of the handshake
\* that was serialized, and rejects the serialized form with its first byte
\* changed, or with a byte of the protocol string changed.
C17_HandshakeRoundTrip ==
    (received.kind = "handshake" /\ peer_sent.kind = "handshake")
        => /\ peer_sent.pos = 0
                => (/\ received.some
                    /\ received.info_hash = peer_sent.handshake.info_hash
                    /\ received.peer_id = peer_sent.handshake.peer_id)
           /\ peer_sent.pos \in 1..20 => ~received.some

\* C17 witness: the last byte of the protocol string was changed
C17_Witness ==
    /\ received.kind = "handshake"
    /\ peer_sent.kind = "handshake"
    /\ peer_sent.pos = 20
    /\ ~received.some

\* C18: receive_message on the frame of a serialized message returns that
\* message and leaves in the stream exactly what follows the frame.
C18_MessageRoundTrip ==
    (received.kind = "message" /\ peer_sent.kind = "message")
        => /\ received.ok
           /\ received.msg = peer_sent.msg
           /\ stream = peer_sent.tail

\* C18 witness: a Piece with an empty block was read, bytes follow it
C18_Witness ==
    /\ received.kind = "message"
    /\ peer_sent.kind = "message"
    /\ peer_sent.msg = Piece(258, 16384, <<>>)
    /\ received.ok
    /\ stream # <<>>

\* A frame of `n` bytes, the id byte counted, is too short for its id
TooShort(id, n) ==
    \/ id = 4 /\ n < 5
    \/ id \in {6, 8} /\ n < 13
    \/ id = 7 /\ n < 9
    \/ id = 9 /\ n < 3

\* C19: receive_message returns an error for a frame that is too short for
\* its id, and for a frame of an id above 9.
C19_ShortFrameRejected ==
    (received.kind = "message" /\ peer_sent.kind = "frame"
       /\ (TooShort(peer_sent.id, peer_sent.len) \/ peer_sent.id > 9))
        => ~received.ok

\* C19 witness: a Piece frame of 8 bytes was rejected
C19_Witness ==
    /\ received.kind = "message"
    /\ peer_sent.kind = "frame"
    /\ peer_sent.id = 7
    /\ peer_sent.len = 8
    /\ ~received.ok

\* The first block added with begin offset b
FirstAt(b) ==
    inserted[CHOOSE i \in 1..Len(inserted) :
                /\ inserted[i].begin = b
                /\ \A j \in 1..(i - 1) : inserted[j].begin # b]

RECURSIVE SumLen(_)
SumLen(S) ==
    IF S = {} THEN 0
    ELSE LET b == CHOOSE x \in S : TRUE
         IN  Len(b.data) + SumLen(S \ {b})

\* C20: after any sequence of add_block the buffer stores, for each begin
\* offset added, the first block added with it and no other block, and
\* received_size is the sum of the data lengths of the stored blocks.
C20_AddBlockIdempotent ==
    /\ piece_buffer.blocks =
          { FirstAt(inserted[i].begin) : i \in 1..Len(inserted) }
    /\ \A b1, b2 \in piece_buffer.blocks : b1.begin = b2.begin => b1 = b2
    /\ piece_buffer.received_size = SumLen(piece_buffer.blocks)

\* C20 witness: the second block added has the begin offset of the first
\* and other data, the third one another begin offset
C20_Witness ==
    /\ Len(inserted) = 3
    /\ inserted[1].begin = inserted[2].begin
    /\ Len(inserted[1].data) # Len(inserted[2].data)
    /\ Cardinality(piece_buffer.blocks) = 2

RECURSIVE SumSeq(_)
SumSeq(q) == IF q = <<>> THEN 0 ELSE Head(q) + SumSeq(Tail(q))

\* C21: for a descriptor of n >= 1 pieces with piece_length >= 1 and
\* ceil(total_size / piece_length) = n, every piece before the last has size
\* piece_length, the last one total_size mod piece_length (piece_length when
\* that is zero), and the sizes of all pieces add up to total_size.
C21_PieceSizes ==
    LET n == Len(torrent.pieces)
        pl == torrent.piece_length
        total == torrent.total_size
    IN  (n >= 1 /\ pl >= 1 /\ (total + pl - 1) \div pl = n)
            => /\ \A i \in 1..Len(sizes) :
                    sizes[i] = IF i < n THEN pl
                               ELSE IF total % pl = 0 THEN pl ELSE total % pl
               /\ Len(sizes) = n => SumSeq(sizes) = total

\* C21 witness: the third and last piece is shorter than the others
C21_Witness ==
    /\ Len(sizes) = 3
    /\ sizes[3] < torrent.piece_length
    /\ sizes[2] = torrent.piece_length

\* The pieces the availability check may be asked about
PieceIndices == 0..15

\* This step reads Have(p) for a p not seen since the last Bitfield
HaveRead(p) ==
    /\ pc = "init"
    /\ p \notin have_seen
    /\ have_seen' = have_seen \cup {p}

\* C22: the bitfield is MSB-first in the availability check and in the Have
\* update alike: a step that reads Have(p) makes piece p, and no other piece,
\* newly available.
C22_HaveMakesAvailable ==
    [][\A p \in PeerHaves :
          HaveRead(p)
              => \A q \in PieceIndices :
                    can_download_piece(q)' <=> (can_download_piece(q) \/ q = p)]_vars

-----------------------------------------------------------------------------
(* Properties of the parser *)

RECURSIVE KeysAscending(_, _)
RECURSIVE ItemsAscending(_, _)
RECURSIVE EntriesAscending(_, _, _)

\* The dictionaries of the value that starts at pos, which parse accepts,
\* have their keys in strictly ascending order of bytes
KeysAscending(data, pos) ==
    CASE data[pos + 1] = Ch.l -> ItemsAscending(data, pos + 1)
      [] data[pos + 1] = Ch.d -> EntriesAscending(data, pos + 1, <<>>)
      [] OTHER -> TRUE

ItemsAscending(data, pos) ==
    \/ data[pos + 1] = Ch.e
    \/ /\ KeysAscending(data, pos)
       /\ ItemsAscending(data, parse(data, pos).pos)

\* before is <<>>, or holds the key of the entry before
EntriesAscending(data, pos, before) ==
    \/ data[pos + 1] = Ch.e
    \/ LET key == parse(data, pos)
           val == parse(data, key.pos)
       IN  /\ before = <<>> \/ BytesLess(before[1], key.value.bytes)
           /\ KeysAscending(data, key.pos)
           /\ EntriesAscending(data, val.pos, <<key.value.bytes>>)

\* The input was accepted from cursor 0 as one complete value
AcceptedWhole ==
    /\ value.type = "nothing"
    /\ parsed.status = "ok"
    /\ parsed.from = 0
    /\ parsed.pos = Len(parser_data)

\* C26: for every input that the parser accepts as one complete value and
\* whose dictionaries have their keys in ascending order, encoding the parsed
\* value gives the input back.
C26_RoundTrip ==
    (AcceptedWhole /\ KeysAscending(parser_data, 0) /\ encoded # <<>>)
        => encoded = parser_data

\* C27: parsing the encoding of a value returns that value with the cursor at
\* the end of the input, and parsing the encoding of what was parsed returns
\* what was parsed.
C27_ParseEncode ==
    /\ (value.type # "nothing" /\ parsed.status # "nothing")
            => /\ parsed.status = "ok"
               /\ parsed.value = value
               /\ position = Len(parser_data)
    /\ reparsed.status # "nothing"
            => /\ reparsed.status = "ok"
               /\ reparsed.value = parsed.value
               /\ reparsed.pos = Len(encoded)

\* C27 witness: a nested dictionary of two keys with a negative integer was
\* encoded, parsed, encoded and parsed again
C27_Witness ==
    /\ value.type = "Dictionary"
    /\ DOMAIN value.entries = {Text.a, Text.b}
    /\ value.entries[Text.a] = BList(<<BInt(0 - 42), BString(Text.e)>>)
    /\ reparsed.status = "ok"

\* "i-42e" and "i-0e"
NegativeInputs == [forty_two |-> <<105, 45, 52, 50, 101>>, zero |-> <<105, 45, 48, 101>>]

\* C28: the parser returns -42 for i-42e and an error for i-0e.
C28_NegativeIntegers ==
    (value.type = "nothing" /\ parsed.status # "nothing" /\ parsed.from = 0)
        => /\ parser_data = NegativeInputs.forty_two
                => parsed.status = "ok" /\ parsed.value = BInt(0 - 42)
           /\ parser_data = NegativeInputs.zero => parsed.status = "err"

\* C29: for every input and every starting cursor parse returns an error, or
\* a value with the cursor one past the last byte of that value, within the
\* input; it does not panic.
C29_ParseTotal ==
    parsed.status # "nothing"
        => /\ parsed.status \in {"ok", "err"}
           /\ parsed.status = "ok"
                => /\ parsed.from < parsed.pos
                   /\ parsed.pos <= Len(parser_data)
                   /\ position = parsed.pos
                   /\ LET part == SubSeq(parser_data, parsed.from + 1, parsed.pos)
                      IN  /\ parse(part, 0).status = "ok"
                          /\ parse(part, 0).pos = Len(part)
                          /\ parse(part, 0).value = parsed.value

-----------------------------------------------------------------------------
(* Properties of parse_torrent_file *)

\* The bytes of the value of the last `info` key of the dictionary that
\* starts the file: the entries from pos on are gone through
RECURSIVE info_bytes(_, _, _)
info_bytes(data, pos, found) ==
    IF data[pos + 1] = Ch.e THEN found
    ELSE LET key == parse(data, pos)
             val == parse(data, key.pos)
         IN  info_bytes(data, val.pos,
                        IF key.value.bytes = Key.info
                        THEN SubSeq(data, key.pos + 1, val.pos) ELSE found)

\* The keys of the info dictionary of the file
InfoKeys == DOMAIN parse(info_bytes(parser_data, 1, <<>>), 0).value.entries

\* C23: every descriptor that parse_torrent_file returns has
\* ceil(total_size / piece_length) = pieces.len().
C23_PieceCount ==
    torrent_file.status = "ok"
        => /\ torrent_file.info.piece_length > 0
           /\ (total_size(torrent_file) + torrent_file.info.piece_length - 1)
                 \div torrent_file.info.piece_length
                    = Len(torrent_file.info.pieces)

\* C24: parse_torrent_file returns a descriptor only for an info dictionary
\* with exactly one of `length` and `files`.
C24_LengthOrFiles ==
    torrent_file.status = "ok"
        => (Key.length \in InfoKeys) # (Key.files \in InfoKeys)

\* C25: for every file that parse_torrent_file accepts the info hash is the
\* hash of the bytes of the file that encode the `info` value.
C25_InfoHashOfFileBytes ==
    torrent_file.status = "ok"
        => torrent_file.info_hash = Sha1(info_bytes(parser_data, 1, <<>>))

-----------------------------------------------------------------------------
(* Properties of the tracker response *)

\* The response is a dictionary with `interval` and `peers` and without
\* `failure reason`
HasPeers ==
    /\ parse(parser_data, 0).status = "ok"
    /\ parse(parser_data, 0).value.type = "Dictionary"
    /\ {TrackerKey.interval, TrackerKey.peers}
            \subseteq DOMAIN parse(parser_data, 0).value.entries
    /\ TrackerKey.failure_reason \notin DOMAIN parse(parser_data, 0).value.entries

PeersValue == parse(parser_data, 0).value.entries[TrackerKey.peers]

\* The peers that announce returned, or its error
Returned ==
    IF response.status = "ok" THEN Got(response.peers)
    ELSE Failed(response.error)

\* C30: whatever the compact flag of the request, peers that the tracker
\* returned as a byte string are decoded as compact peers and peers returned
\* as a list as dictionary peers.
C30_EitherEncoding ==
    (response.status # "nothing" /\ HasPeers)
        => /\ PeersValue.type = "String" => Returned = parse_compact_peers(PeersValue)
           /\ PeersValue.type = "List" => Returned = parse_dict_peers(PeersValue)


\* C31: of a byte string of 6*k bytes parse_compact_peers returns k peers in
\* the order of the input, peer j (from 0) with the address of bytes 6j..6j+3
\* and the port 256 * byte 6j+4 + byte 6j+5; of a byte string whose length
\* is no multiple of 6 it returns an error, so no peers.
C31_CompactPeers ==
    (value.type = "String" /\ response.status # "nothing") =>
        LET b == value.bytes IN
        IF Len(b) % 6 = 0
        THEN /\ response.status = "ok"
             /\ Len(response.v) = Len(b) \div 6
             /\ \A j \in 0..(Len(response.v) - 1) :
                    /\ response.v[j + 1].ip
                         = <<b[6 * j + 1], b[6 * j + 2], b[6 * j + 3], b[6 * j + 4]>>
                    /\ response.v[j + 1].port = 256 * b[6 * j + 5] + b[6 * j + 6]
        ELSE response.status = "err"

\* The group of the repository's test, 192.168.1.1:6881, as the second of
\* two peers
C31_Witness ==
    /\ value.type = "String"
    /\ response.status = "ok"
    /\ Len(response.v) = 2
    /\ response.v[1].port = 80
    /\ response.v[2].ip = <<192, 168, 1, 1>>
    /\ response.v[2].port = 6881

-----------------------------------------------------------------------------
(* Properties of download, continued *)

\* C34: a Have(i) that is read while the blocks of a piece before i are
\* awaited sets bit i of the peer's bitfield, so that piece i is available
\* when its turn comes.
C34_HaveMidPiece ==
    [][\A i \in PeerHaves :
          (Receiving /\ ~StopRequested /\ piece_index < i /\ i < NumPieces
               /\ Ignored(Have(i)))
              => can_download_piece(i)']_vars

RequestsSent == { k \in 1..Len(sent) : sent[k].type = "Request" }

\* C35: nothing is retried in one download call: no two Requests sent name
\* the same piece and the same offset, and from the first error on the call
\* has returned with that error: nothing more is sent, read or written.
C35_NoRetry ==
    /\ [](\A a \in RequestsSent : \A b \in RequestsSent :
             (sent[a].index = sent[b].index /\ sent[a].begin = sent[b].begin)
                 => a = b)
    /\ [](err # "" => pc = "failed")
    /\ [][ err # ""
             => (/\ err' = err
                 /\ UNCHANGED <<sent, msgs_read, messages_received, output_file>>) ]_vars

\* C35 witness: the second piece failed its hash after the Requests of both
\* pieces were sent and the first piece was written
C35_Witness ==
    /\ pc = "failed"
    /\ err = "Piece failed hash verification"
    /\ piece_index = 1
    /\ Cardinality(RequestsSent) >= 2
    /\ output_file.data # <<>>

\* C37: the pieces marked in the completion bitmap are the pieces 0..k-1
\* for some k up to the number of pieces, and the k-th PieceCompleted event
\* carries the index k-1, the count k and the number of pieces.
C37_CompletedPrefix ==
    /\ \E k \in 0..NumPieces :
          \A i \in 1..Len(completed_pieces) : completed_pieces[i] <=> i <= k
    /\ \A k \in 1..Len(CompletedEvents) :
          /\ CompletedEvents[k].index = k - 1
          /\ CompletedEvents[k].completed = k
          /\ CompletedEvents[k].total = NumPieces

\* C37 witness: two of three pieces are marked and two events were emitted
C37_Witness ==
    /\ NumPieces = 3
    /\ completed_pieces = <<TRUE, TRUE, FALSE>>
    /\ Len(CompletedEvents) = 2
    /\ pc = "receive"

CompleteEmitted == \E k \in 1..Len(events) : events[k].type = "DownloadComplete"

\* C38: download has returned success, or DownloadComplete was emitted,
\* only with every piece marked in the completion bitmap; no call that
\* returns an error has emitted DownloadComplete, and no PieceCompleted
\* event follows DownloadComplete.
C38_CompleteOnlyWhenAll ==
    /\ (pc = "done" \/ CompleteEmitted)
          => \A i \in 1..NumPieces : completed_pieces[i]
    /\ ~(CompleteEmitted /\ (pc = "failed" \/ err # ""))
    /\ \A a \in 1..Len(events) : \A b \in 1..Len(events) :
          (events[a].type = "DownloadComplete" /\ a < b)
              => events[b].type # "PieceCompleted"

\* C38 witness: download returned success after two pieces, with
\* DownloadComplete as the last event
C38_Witness ==
    /\ pc = "done"
    /\ NumPieces = 2
    /\ completed_pieces = <<TRUE, TRUE>>
    /\ events # <<>>
    /\ events[Len(events)].type = "DownloadComplete"

\* The blocks of the piece buffer that hold cell c of the piece
Covering(c) ==
    { b \in piece_buffer.blocks : b.begin < c /\ c <= b.begin + Len(b.data) }

\* C39: when the piece buffer reports complete, every block it holds lies
\* within the piece, and every offset of the piece is covered by exactly one
\* of its blocks, whatever blocks were added.
C39_CompleteCovers ==
    (piece_buffer.total_size > 0 /\ is_complete(piece_buffer))
        => /\ \A b \in piece_buffer.blocks :
                 b.begin + Len(b.data) <= piece_buffer.total_size
           /\ \A c \in 1..piece_buffer.total_size : Cardinality(Covering(c)) = 1

-----------------------------------------------------------------------------
(* Properties of run_download, continued *)

\* A step in which run_download, past the tracker response, reads the stop
\* flag as set and returns for that reason
ReturnsOnStop ==
    /\ stop_signal
    /\ run_pc' = "returned"
    /\ \/ run_pc = "loop" /\ peer_k < peers
       \/ run_pc = "after_attempt"
       \/ run_pc = "after_loop" /\ ~connected

StoppedEvents == SelectSeq(events, LAMBDA e : e.type = "DownloadStopped")

\* C40: a run that ends because it read the stop flag as set, after the
\* tracker response, has emitted DownloadStopped exactly once, as its last
\* event.
C40_StoppedOnce ==
    [][ (ui_sender = "alive" /\ ReturnsOnStop)
          => (/\ Len(StoppedEvents') = 1
              /\ events'[Len(events')].type = "DownloadStopped") ]_vars

-----------------------------------------------------------------------------
(* Properties of parse_torrent_file, continued *)

\* The `piece length` integer of the info dictionary of the file
FilePieceLength ==
    parse(info_bytes(parser_data, 1, <<>>), 0).value.entries[Key.piece_length]

\* 2^32 - 1 in decimal digits
U32Max == <<52, 50, 57, 52, 57, 54, 55, 50, 57, 53>>

\* C36: a descriptor is returned only if the `piece length` v of the file
\* has 1 <= v <= 2^32 - 1, and its piece_length is v.
C36_PieceLength ==
    torrent_file.status = "ok" =>
        /\ ~FilePieceLength.neg
        /\ DecGreater(StripZeros(FilePieceLength.digits), <<Ch.zero>>)
        /\ ~DecGreater(StripZeros(FilePieceLength.digits), U32Max)
        /\ torrent_file.info.piece_length = DecToNat(FilePieceLength.digits)

-----------------------------------------------------------------------------
(* Properties of the announce request *)

Unreserved == (48..57) \cup (65..90) \cup (97..122) \cup {45, 95, 46, 126}

UpperHex == <<48, 49, 50, 51, 52, 53, 54, 55, 56, 57, 65, 66, 67, 68, 69, 70>>

\* A byte as the claim wants it written
Written(byte) ==
    IF byte \in Unreserved THEN <<byte>>
    ELSE <<37, UpperHex[(byte \div 16) + 1], UpperHex[(byte % 16) + 1]>>

HexValue(c) == CHOOSE d \in 0..15 : UpperHex[d + 1] = c

\* Percent-decoding: %HH is the byte HH, any other byte is itself
RECURSIVE percent_decode(_)
percent_decode(text) ==
    IF text = <<>> THEN <<>>
    ELSE IF Head(text) = 37 /\ Len(text) >= 3
    THEN <<16 * HexValue(text[2]) + HexValue(text[3])>>
             \o percent_decode(SubSeq(text, 4, Len(text)))
    ELSE <<Head(text)>> \o percent_decode(Tail(text))

ByteLiteral(raw, result) ==
    /\ result = Concat([k \in 1..Len(raw) |-> Written(raw[k])])
    /\ percent_decode(result) = raw

\* C32: a field of raw bytes is encoded byte by byte, by url_encode_bytes
\* and in the query of the announce alike: a byte of A-Za-z0-9-_.~ as
\* itself, any other byte as %HH in upper case, no % encoded again, so that
\* decoding gives the bytes back.
C32_PercentEncoding ==
    /\ url_encoded.status = "ok" => ByteLiteral(raw_field.v, url_encoded.v)
    /\ query_encoded.status = "ok" => ByteLiteral(raw_field.v, query_encoded.v)

\* C33: the generated peer id is 20 bytes long and starts with -RS0001-.
C33_PeerIdPrefix ==
    generated.status = "ok" =>
        /\ Len(generated.v) = 20
        /\ SubSeq(generated.v, 1, 8) = <<45, 82, 83, 48, 48, 48, 49, 45>>

=============================================================================
